---- MODULE Spec2Model ----
(***************************************************************************)
(* Model of gde: the snapshot extractor (src/copy.rs, src/lib.rs and the   *)
(* git wrappers under src/git/) and the one-line log parser                *)
(* (src/git/onelinelog.rs).                                                *)
(*                                                                         *)
(* Paths are sequences of path components; text is a sequence of           *)
(* one-character strings; a git revision is an opaque string.  The working *)
(* tree is HEAD plus, per path, the revision whose content the path holds. *)
(* Every collaborator call (a git subprocess, a file-system call, a write  *)
(* to the report writer) either succeeds or fails, drawn with \E.          *)
(***************************************************************************)
EXTENDS Integers, Sequences, FiniteSets, TLC

\* ------------------------------------------------------------------ bounds

\* Largest number of changed paths `git diff --name-only` reports.
MaxFiles == 2

\* The revisions of the repository under test.
Revs == {"r0", "r1", "r2"}

\* The paths of the repository under test (relative, as git prints them).
Paths == {<<"a">>, <<"d", "b">>, <<"d", "e", "c">>}

\* The output directory given to FilesCopy::new.
OutputDir == <<"out">>

\* The top-level directory of the working tree (GitCheckout.root_dir).
RootDir == <<"repo">>

\* Longest log line among the lines enumerated character by character.
MaxLineLen == 4

\* Longest commit message of the template lines and of the Commit values.
MaxMsgLen == 2

\* The longest list of log lines the picker is given.
MaxItems == 4

\* The most Defer values one scope holds.
MaxGuards == 2

\* The most calls of Defer::cancel in one scope.
MaxCancels == 2

\* The most calls of Git::exec a caller makes in a row.
MaxExecs == 2

\* ------------------------------------------------------------- error texts

ErrDirty == "Please commit or discard the changes"
ErrDiff == "Failed to get differences"
ErrLsTree == "Failed to get tree of files"
ErrCheckout == "Failed to checkout"
ErrRootDir == "Failed to get root directory"
ErrIo == "io error"
PanicUnwrap == "panic: called Result::unwrap() on an Err value"

\* Every Err value FilesCopy::copy can return.
Errors == {ErrDirty, ErrDiff, ErrLsTree, ErrCheckout, ErrRootDir, ErrIo}

\* --------------------------------------------------------------- variables

VARIABLES
    pc,              \* position in FilesCopy::copy / FilesCopyInner::copy
    from_commit,     \* FilesCopy.from_commit
    to_commit,       \* FilesCopy.to_commit
    current_commit,  \* FilesCopy.current_commit
    files,           \* the changed paths (`files` of FilesCopy::copy)
    pass,            \* which FilesCopyInner runs: "none", "from", "to"
    set,             \* per pass, the tree listing (`set`), once listed
    idx,             \* per pass, the loop iterations completed
    defer,           \* whether the Defer guard of the running pass is armed
    pending,         \* the Err the running pass is returning, or "none"
    outcome,         \* what FilesCopy::copy ended with, "none" while running
    head,            \* the revision HEAD of the working tree points at
    wt,              \* per path, the revision whose content the path holds
    dirs,            \* directories created under the output directory
    outfiles,        \* files copied out: <<destination, content revision>>
    w,               \* "Copied:" lines written to the report writer
    calls,           \* the git commands run so far, in order
    unstaged,        \* result of `git diff --name-only HEAD`: [st, list]
    staged,          \* result of `git diff --staged --name-only HEAD`
    ppc,             \* position of the parser run: what has been computed
    given,           \* the Commit value a line is written from, if any
    line,            \* the text of one log line
    log,             \* OnelineLog::from(line)
    text,            \* the parsed Commit rendered again
    tpc,             \* position in main / GdeTerminal::run of gde-tui
    items,           \* StatefullTermOnelineLog.items
    selected,        \* StatefullTermOnelineLog.state.selected(), NoPos if None
    npc,             \* the running get_next / get_prev, "idle" if none
    arg,             \* the argument `i` of the running get_next / get_prev
    depth,           \* how many activations of it are on the stack
    wrapped,         \* whether it fell through to `self.get_next(0)`
    called,          \* the last two next() / prev() calls of the list's caller
    run_from_commit, \* `from_commit` of GdeTerminal::run
    run_to_commit,   \* `to_commit` of GdeTerminal::run
    notice_msg,      \* `notice_msg` of GdeTerminal::run
    picked,          \* what GdeTerminal::run returned
    key,             \* the key the last event::read returned, "" if none
    guard,           \* each Defer value: whether it lives and its field `f`
    scope,           \* where the scope holding the Defer values is
    events,          \* what happened to the Defer values, in order
    cwd,             \* the current directory of the process
    epc,             \* where Git::exec is
    target_dir,      \* `target_dir` of Git::exec
    prev_dir,        \* `dir` of Git::exec: the directory to go back to
    f_ret,           \* `ret` of Git::exec: what the closure returned
    returned,        \* what Git::exec returned
    origin,          \* the current directory when Git::exec was called
    f_runs,          \* how often this Git::exec ran its closure
    execs            \* how many calls of Git::exec were made

\* The state of the log-line parser.
parserVars == <<ppc, given, line, log, text>>

\* The state of one FilesCopy run.
copyVars == <<pc, from_commit, to_commit, current_commit, files, pass, set,
              idx, defer, pending, outcome, head, wt, dirs, outfiles, w,
              calls, unstaged, staged>>

\* The state of the list the picker moves in (StatefullTermOnelineLog).
navVars == <<items, selected, npc, arg, depth, wrapped, called>>

\* The state of the picker (GdeTerminal::run and main of gde-tui).
tuiVars == <<tpc, navVars, run_from_commit, run_to_commit, notice_msg, picked,
             key>>

\* The state of the Defer values of a scope (lib.rs).
guardVars == <<guard, scope, events>>

\* The state of a caller of Git::exec (git/mod.rs).
execVars == <<cwd, epc, target_dir, prev_dir, f_ret, returned, origin, f_runs,
              execs>>

\* The state of the two library pieces run on their own.
libVars == <<guardVars, execVars>>

\* What a FilesCopy run leaves alone.
notCopy == <<parserVars, tuiVars, libVars>>

\* What a parser run leaves alone.
notParser == <<copyVars, tuiVars, libVars>>

vars == <<copyVars, parserVars, tuiVars, libVars>>

\* ----------------------------------------------------------------- helpers

Range(s) == {s[i] : i \in 1..Len(s)}

RECURSIVE SeqsUpTo(_, _)
\* All sequences of distinct elements of S of length at most n.
SeqsUpTo(S, n) ==
    IF n = 0 THEN {<<>>}
    ELSE LET shorter == SeqsUpTo(S, n - 1)
         IN  shorter \cup {Append(s, x) : s \in shorter, x \in S}

\* The lists of paths a `--name-only` command can print.
PathLists == {s \in SeqsUpTo(Paths, MaxFiles) : Cardinality(Range(s)) = Len(s)}

\* PathBuf::pop on a relative path: the path without its last component.
ParentDir(file) == SubSeq(file, 1, Len(file) - 1)

\* Path::join of a relative path.
Join(dir, rel) == dir \o rel

\* fs::create_dir_all: the directory and every missing ancestor.
CreateDirAll(d) == {SubSeq(d, 1, n) : n \in 1..Len(d)}

\* Mutant: both passes copy into output_dir itself.
PassDir_Shared(e) == OutputDir

\* The output subdirectory of a pass (copy.rs, from_dir / to_dir).
PassDir(e) == Join(OutputDir, <<e>>)

\* The commit a pass extracts (FilesCopyInner.commit).
PassCommit(e) == IF e = "from" THEN from_commit ELSE to_commit

\* The result of a git query: st is "ok", "failed" or "notrun".
Res(st, list) == [st |-> st, list |-> list]

\* The results a `--name-only` query can have.
DiffResults == {Res("ok", l) : l \in PathLists} \cup {Res("failed", <<>>)}

NotRun == Res("notrun", <<>>)

\* One git command run through a handle: the method called (GitDiff::name_only,
\* GitDiff::staged_name_only, GitLsTree::name_only, GitCheckout::checkout of
\* `gc` or of `gc_origin`, GitReset::hard), its commit, its path, its success.
Call(op, commit, path, ok) ==
    [op |-> op, commit |-> commit, path |-> path, ok |-> ok]

\* ---------------------------------------------- RangeStr (onelinelog.rs)

\* Option::None of a position or of a range.
NoPos == -1

NoRange == <<NoPos, NoPos>>

\* Iterator::position: the 0-based index of the first element equal to ch.
Position(c, ch) ==
    IF \E i \in 1..Len(c) : c[i] = ch
    THEN (CHOOSE i \in 1..Len(c) :
              c[i] = ch /\ \A j \in 1..(i - 1) : c[j] # ch) - 1
    ELSE NoPos

\* Iterator::rev().position: the distance of the last element equal to ch
\* from the end.
RevPosition(c, ch) ==
    IF \E i \in 1..Len(c) : c[i] = ch
    THEN Len(c) - (CHOOSE i \in 1..Len(c) :
                       c[i] = ch /\ \A j \in (i + 1)..Len(c) : c[j] # ch)
    ELSE NoPos

\* Mutant: the bounds are taken in the order given.
StrFromRange_NoSwap(c, p1, p2) == SubSeq(c, p1 + 1, p2)

\* RangeStr::str_from_range: the slice c[p1..p2], the bounds swapped when they
\* come in the wrong order.
StrFromRange(c, p1, p2) ==
    LET lo == IF p1 <= p2 THEN p1 ELSE p2
        hi == IF p1 <= p2 THEN p2 ELSE p1
    IN  SubSeq(c, lo + 1, hi)

\* Whether the slice of str_from_range lies inside the text (it panics if not).
SliceOk(c, p1, p2) == p1 >= 0 /\ p2 >= 0 /\ p1 <= Len(c) /\ p2 <= Len(c)

\* RangeStr::first_range: from after the first p1 to the first p2, each found
\* on its own from the start of the text.
FirstRange(c, p1, p2) ==
    LET i1 == Position(c, p1)
        i2 == Position(c, p2)
    IN  IF i1 # NoPos /\ i2 # NoPos THEN <<i1 + 1, i2>> ELSE NoRange

\* Mutant: the search runs from the front.
LastRange_FromFront(c, p1, p2) == FirstRange(c, p1, p2)

\* RangeStr::last_range: from after the last p1 to the last p2.
LastRange(c, p1, p2) ==
    LET r1 == RevPosition(c, p1)
        r2 == RevPosition(c, p2)
    IN  IF r1 # NoPos /\ r2 # NoPos
        THEN <<Len(c) - r1, Len(c) - r2 - 1>>
        ELSE NoRange

\* ------------------------------------------------- Commit (onelinelog.rs)

RECURSIVE CountLeadingSpaces(_)
\* chars().take_while(|&x| x == ' ').count()
CountLeadingSpaces(t) ==
    IF t # <<>> /\ Head(t) = " " THEN 1 + CountLeadingSpaces(Tail(t)) ELSE 0

RECURSIVE CountTrailingSpaces(_)
CountTrailingSpaces(t) ==
    IF t # <<>> /\ t[Len(t)] = " "
    THEN 1 + CountTrailingSpaces(SubSeq(t, 1, Len(t) - 1))
    ELSE 0

\* str::trim, the space being the only whitespace of the texts modelled.
Trim(t) ==
    LET a == CountLeadingSpaces(t)
    IN  IF a = Len(t) THEN <<>>
        ELSE SubSeq(t, a + 1, Len(t) - CountTrailingSpaces(t))

\* itertools::repeat_n(' ', n).collect::<String>()
Spaces(n) == [i \in 1..n |-> " "]

\* Option<String>
None == [some |-> FALSE, v |-> <<>>]

Some(v) == [some |-> TRUE, v |-> v]

\* Commit::new
NewCommit(tree_head, hash_padding, hash, aliases, message, date, author) ==
    [tree_head |-> tree_head, hash_padding |-> hash_padding, hash |-> hash,
     aliases |-> aliases, message |-> message, date |-> date,
     author |-> author]

NoCommit == NewCommit(<<>>, <<>>, <<>>, None, <<>>, <<>>, <<>>)

\* Result<Commit, Error> of Commit::from_str, or the panic that ends it.
Parsed(c) == [kind |-> "Ok", commit |-> c]

LogParseError == [kind |-> "Err", commit |-> NoCommit]

Panicked == [kind |-> "Panic", commit |-> NoCommit]

\* impl Display for Commit
Display(c) ==
    c.tree_head
        \o <<"*", " ">>
        \o c.hash_padding
        \o c.hash
        \o <<" ", "-">>
        \o (IF c.aliases.some
            THEN <<" ", "(">> \o c.aliases.v \o <<")">>
            ELSE <<>>)
        \o <<" ">> \o c.message
        \o <<" ", "(">> \o c.date \o <<")">>
        \o <<" ", "<">> \o c.author \o <<">">>

\* Mutant: the first group is always taken for the aliases.
Disambiguate_AlwaysAliases(aliases, date, hash_end, aliases_end) ==
    [aliases |-> Some(aliases), msgp1 |-> aliases_end + 1]

\* Mutant: the first group is never taken for the aliases.
Disambiguate_NeverAliases(aliases, date, hash_end, aliases_end) ==
    [aliases |-> None, msgp1 |-> hash_end + 1]

\* onelinelog.rs 140-144: one parenthesized group is the date; two are the
\* aliases and the date.  The result is [aliases, msgp1].
Disambiguate(aliases, date, hash_end, aliases_end) ==
    IF aliases = date
    THEN [aliases |-> None, msgp1 |-> hash_end + 1]
    ELSE [aliases |-> Some(aliases), msgp1 |-> aliases_end + 1]

\* impl FromStr for Commit.  `count() - 1` is a usize subtraction: with no
\* leading space it overflows, which panics in a debug build and in a release
\* build asks repeat_n for usize::MAX characters, which panics in collect.
FromStr(s) ==
    LET hash_range == FirstRange(s, "*", "-")
    IN  IF hash_range = NoRange THEN LogParseError
        ELSE
        LET field == StrFromRange(s, hash_range[1], hash_range[2])
            count == CountLeadingSpaces(field)
        IN  IF count - 1 < 0 THEN Panicked
            ELSE
            LET padding == Spaces(count - 1)
                hash == Trim(field)
                aliases_range == FirstRange(s, "(", ")")
            IN  IF aliases_range = NoRange THEN LogParseError
                ELSE
                LET aliases == StrFromRange(s, aliases_range[1],
                                            aliases_range[2])
                    date_range == LastRange(s, "(", ")")
                IN  IF date_range = NoRange THEN LogParseError
                    ELSE
                    LET date == StrFromRange(s, date_range[1], date_range[2])
                        author_range == LastRange(s, "<", ">")
                    IN  IF author_range = NoRange THEN LogParseError
                        ELSE
                        LET author == StrFromRange(s, author_range[1],
                                                   author_range[2])
                            d == Disambiguate(aliases, date, hash_range[2],
                                              aliases_range[2])
                        IN  IF \/ date_range[1] - 1 < 0
                               \/ hash_range[1] - 1 < 0
                               \/ ~SliceOk(s, d.msgp1, date_range[1] - 1)
                            THEN Panicked
                            ELSE Parsed(NewCommit(
                                     StrFromRange(s, 0, hash_range[1] - 1),
                                     padding, hash, d.aliases,
                                     Trim(StrFromRange(s, d.msgp1,
                                                       date_range[1] - 1)),
                                     date, author))

\* enum OnelineLog, or the panic that ended OnelineLog::from.
LogCommit(c) == [kind |-> "Commit", commit |-> c, branches |-> <<>>]

\* Mutant: the text is kept trimmed.
TreeBranches_Trimmed(t) ==
    [kind |-> "TreeBranches", commit |-> NoCommit, branches |-> Trim(t)]

TreeBranches(t) == [kind |-> "TreeBranches", commit |-> NoCommit, branches |-> t]

LogPanic == [kind |-> "Panic", commit |-> NoCommit, branches |-> <<>>]

NoLog == [kind |-> "none", commit |-> NoCommit, branches |-> <<>>]

\* OnelineLog::from
OnelineLogFrom(s) ==
    LET r == FromStr(s)
    IN  IF r.kind = "Ok" THEN LogCommit(r.commit)
        ELSE IF r.kind = "Err" THEN TreeBranches(s)
        ELSE LogPanic

\* No parser run: the state of the parser variables during a FilesCopy run.
ParserIdle ==
    /\ ppc = "idle"
    /\ given = NoCommit
    /\ line = <<>>
    /\ log = NoLog
    /\ text = <<>>

\* ------------------------------------------------------ FilesCopy (copy.rs)

\* FilesCopy::new: the state of a run before FilesCopy::copy is called, the
\* working tree at the current commit.
CopyInit ==
    /\ pc = "check"
    /\ from_commit \in Revs
    /\ to_commit \in Revs
    /\ current_commit \in Revs
    /\ files = <<>>
    /\ pass = "none"
    /\ set = [e \in {"from", "to"} |-> [listed |-> FALSE, names |-> {}]]
    /\ idx = [e \in {"from", "to"} |-> 0]
    /\ defer = FALSE
    /\ pending = "none"
    /\ outcome = "none"
    /\ head = current_commit
    /\ wt = [p \in Paths |-> current_commit]
    /\ dirs = {}
    /\ outfiles = {}
    /\ w = <<>>
    /\ calls = <<>>
    /\ unstaged = NotRun
    /\ staged = NotRun

\* No FilesCopy run: the state of its variables during a parser run.
CopyIdle ==
    /\ pc = "idle"
    /\ from_commit = "r0"
    /\ to_commit = "r0"
    /\ current_commit = "r0"
    /\ files = <<>>
    /\ pass = "none"
    /\ set = [e \in {"from", "to"} |-> [listed |-> FALSE, names |-> {}]]
    /\ idx = [e \in {"from", "to"} |-> 0]
    /\ defer = FALSE
    /\ pending = "none"
    /\ outcome = "none"
    /\ head = "r0"
    /\ wt = [p \in Paths |-> "r0"]
    /\ dirs = {}
    /\ outfiles = {}
    /\ w = <<>>
    /\ calls = <<>>
    /\ unstaged = NotRun
    /\ staged = NotRun

\* Option<CommitInfo> of GdeTerminal::run (gde-tui.rs 153-156).
NoInfo == [some |-> FALSE, hash |-> "", message |-> ""]

CommitInfo(hash, message) == [some |-> TRUE, hash |-> hash, message |-> message]

\* Option<(String, String)>, the result of GdeTerminal::run.
NoPair == [some |-> FALSE, from |-> "", to |-> ""]

Pair(f, t) == [some |-> TRUE, from |-> f, to |-> t]

\* `notice_msg`: None, or the text shown and the hash it names.
Notice(t, h) == [text |-> t, hash |-> h]

NoNotice == Notice("", "")

\* No picker: the state of its variables during a FilesCopy or parser run.
TuiIdle ==
    /\ tpc = "idle"
    /\ items = <<>>
    /\ selected = NoPos
    /\ npc = "idle"
    /\ arg = 0
    /\ depth = 0
    /\ wrapped = FALSE
    /\ called = <<>>
    /\ run_from_commit = NoInfo
    /\ run_to_commit = NoInfo
    /\ notice_msg = NoNotice
    /\ picked = NoPair
    /\ key = ""

\* The Defer values a scope may hold.
Guards == 1..MaxGuards

\* A Defer value: not yet made, alive or dropped, and its field `f`.
Unborn == [st |-> "unborn", f |-> "None"]

\* The directories of the process.
Dirs == {"/w", "/repo", "/sub"}

\* No scope with Defer values is run.
GuardIdle ==
    /\ guard = [g \in Guards |-> Unborn]
    /\ scope = "idle"
    /\ events = <<>>

\* No caller of Git::exec is run.
ExecIdle ==
    /\ cwd = "/w"
    /\ epc = "idle"
    /\ target_dir = ""
    /\ prev_dir = ""
    /\ f_ret = "none"
    /\ returned = "none"
    /\ origin = ""
    /\ f_runs = 0
    /\ execs = 0

LibIdle == GuardIdle /\ ExecIdle

Init == CopyInit /\ ParserIdle /\ TuiIdle /\ LibIdle

\* Mutant: the Err is dropped and the run goes on.
Return_GoesOn(result) ==
    /\ outcome' = outcome
    /\ pc' = "mkout"

\* `return Err(err)` (or `?`) out of FilesCopy::copy itself.
Return(result) ==
    /\ outcome' = result
    /\ pc' = "done"

\* Mutant: the hard reset sits on the success path only.
ErrorExit_SuccessPathOnly(armed) == "done"

\* Where an Err raised inside FilesCopyInner::copy goes: with the Defer guard
\* alive the guard is dropped first; before it exists the Err returns at once.
ErrorExit(armed) == IF armed THEN "drop" ELSE "done"

\* Mutant: the failed step is tried again.
Raise_Retry(err) ==
    /\ pc' = pc
    /\ pending' = pending
    /\ outcome' = outcome

\* `?` inside FilesCopyInner::copy.
Raise(err) ==
    /\ pc' = ErrorExit(defer)
    /\ pending' = IF defer THEN err ELSE pending
    /\ outcome' = IF defer THEN outcome ELSE err

\* Mutant: the staged list is not looked at.
IsDirty_UnstagedOnly(u, s) == u # <<>>

\* copy.rs 53: the condition of the dirty check, on the two lists.
IsDirty(u, s) == u # <<>> \/ s # <<>>

\* copy.rs 52-55: the dirty check.  `||` runs the staged query only when the
\* unstaged list is empty.
CheckChanges ==
    /\ pc = "check"
    /\ \E hOk \in BOOLEAN, u \in DiffResults, s \in DiffResults \cup {NotRun} :
        /\ (s = NotRun) <=> (~hOk \/ u # Res("ok", <<>>))
        /\ hOk \/ u.st = "failed"
        /\ unstaged' = IF hOk THEN u ELSE NotRun
        /\ staged' = s
        /\ calls' = calls
                \o (IF hOk THEN <<Call("diff.name_only", "HEAD", <<>>, u.st = "ok")>>
                    ELSE <<>>)
                \o (IF s # NotRun
                    THEN <<Call("diff.staged_name_only", "HEAD", <<>>,
                               s.st = "ok")>>
                    ELSE <<>>)
        /\ IF ~hOk THEN Return(ErrRootDir)
           ELSE IF u.st = "failed" \/ s.st = "failed" THEN Return(ErrDiff)
           ELSE IF IsDirty(u.list, s.list) THEN Return(ErrDirty)
           ELSE pc' = "diff" /\ outcome' = outcome
    /\ UNCHANGED <<notCopy, from_commit, to_commit, current_commit, files, pass, set,
                   idx, defer, pending, head, wt, dirs, outfiles, w>>

\* Mutant: no early return on an empty list.
AfterDiff_NoEarlyReturn(fs) == "mkout"

\* copy.rs 64: where FilesCopy::copy goes once the changed paths are known.
AfterDiff(fs) == IF fs = <<>> THEN "done" ELSE "mkout"

\* copy.rs 57-80: the changed paths between the two commits, and the header
\* written to the report writer.  A commit does not differ from itself.
DiffFiles ==
    /\ pc = "diff"
    /\ \E hOk \in BOOLEAN, r \in DiffResults, wOk \in BOOLEAN :
        /\ hOk \/ (r.st = "failed" /\ wOk)
        /\ (r.st = "failed") => wOk
        /\ (from_commit = to_commit) => r.list = <<>>
        /\ calls' = IF hOk
                    THEN Append(calls, Call("diff.name_only", from_commit, <<>>,
                                            r.st = "ok"))
                    ELSE calls
        /\ files' = IF hOk THEN r.list ELSE files
        /\ IF ~hOk THEN Return(ErrRootDir)
           ELSE IF r.st = "failed" THEN Return(ErrDiff)
           ELSE IF ~wOk THEN Return(ErrIo)
           ELSE IF AfterDiff(r.list) = "done" THEN Return("Ok")
           ELSE pc' = AfterDiff(r.list) /\ outcome' = outcome
    /\ UNCHANGED <<notCopy, from_commit, to_commit, current_commit, pass, set, idx,
                   defer, pending, head, wt, dirs, outfiles, w, unstaged,
                   staged>>

\* copy.rs 83: fs::create_dir_all(&self.output_dir)?
CreateOutputDir ==
    /\ pc = "mkout"
    /\ \E ok \in BOOLEAN :
        IF ok
        THEN /\ dirs' = dirs \cup CreateDirAll(OutputDir)
             /\ pc' = "begin"
             /\ outcome' = outcome
        ELSE /\ dirs' = dirs
             /\ Return(ErrIo)
    /\ UNCHANGED <<notCopy, from_commit, to_commit, current_commit, files, pass, set,
                   idx, defer, pending, head, wt, outfiles, w, calls,
                   unstaged, staged>>

\* copy.rs 86-95 and 99-108: the "Copiying files" line and FilesCopyInner::new,
\* first for "from", then for "to".
BeginPass ==
    /\ pc = "begin"
    /\ \E wOk \in BOOLEAN :
        IF wOk
        THEN /\ pass' = (IF pass = "none" THEN "from" ELSE "to")
             /\ pc' = "lstree"
             /\ outcome' = outcome
        ELSE /\ pass' = pass
             /\ Return(ErrIo)
    /\ UNCHANGED <<notCopy, from_commit, to_commit, current_commit, files, set, idx,
                   defer, pending, head, wt, dirs, outfiles, w, calls,
                   unstaged, staged>>

\* The listings git can give for the pass: a commit's tree does not change
\* between two listings, and a changed path exists at one endpoint at least.
Listings(e) ==
    {r \in SUBSET Paths :
        e = "to" =>
            /\ Range(files) \subseteq (set["from"].names \cup r)
            /\ (to_commit = from_commit => r = set["from"].names)}

\* copy.rs 154-155: GitLsTree::new(..)? and gitls.name_only()? into `set`.
ListTree ==
    /\ pc = "lstree"
    /\ \E hOk \in BOOLEAN, lOk \in BOOLEAN, r \in Listings(pass) :
        /\ (~hOk \/ ~lOk) => r = {}
        /\ hOk \/ ~lOk
        /\ calls' = IF hOk
                    THEN Append(calls, Call("gitls.name_only", PassCommit(pass),
                                            <<>>,
                                            lOk))
                    ELSE calls
        /\ set' = IF lOk
                  THEN [set EXCEPT ![pass] = [listed |-> TRUE, names |-> r]]
                  ELSE set
        /\ IF ~hOk THEN Raise(ErrRootDir)
           ELSE IF ~lOk THEN Raise(ErrLsTree)
           ELSE pc' = "handles" /\ UNCHANGED <<pending, outcome>>
    /\ UNCHANGED <<notCopy, from_commit, to_commit, current_commit, files, pass, idx,
                   defer, head, wt, dirs, outfiles, w, unstaged, staged>>

\* copy.rs 156-159: the two GitCheckout handles and the GitReset handle, then
\* the Defer guard.
MakeHandles ==
    /\ pc = "handles"
    /\ \E hOk \in BOOLEAN :
        IF hOk
        THEN /\ defer' = TRUE
             /\ pc' = "loop"
             /\ UNCHANGED <<pending, outcome>>
        ELSE /\ defer' = defer
             /\ Raise(ErrRootDir)
    /\ UNCHANGED <<notCopy, from_commit, to_commit, current_commit, files, pass, set,
                   idx, head, wt, dirs, outfiles, w, calls, unstaged, staged>>

\* Mutant: the loop runs through the paths from the last to the first.
File_Reverse == files[Len(files) - idx[pass]]

\* The path the loop of FilesCopyInner::copy is at.
File == files[idx[pass] + 1]

\* Mutant: the tree listing is not consulted.
Copies_Always(file, listing) == TRUE

\* copy.rs 166: whether the path is materialized and copied.
Copies(file, listing) == file \in listing

\* copy.rs 161-166: the destination directory of the next path; a path the
\* commit does not hold ends the iteration here.
MakeDir ==
    /\ pc = "loop"
    /\ idx[pass] < Len(files)
    /\ \E ok \in BOOLEAN :
        IF ok
        THEN /\ dirs' = dirs
                    \cup CreateDirAll(Join(PassDir(pass), ParentDir(File)))
             /\ IF Copies(File, set[pass].names)
                THEN pc' = "checkout" /\ idx' = idx
                ELSE pc' = "loop" /\ idx' = [idx EXCEPT ![pass] = @ + 1]
             /\ UNCHANGED <<pending, outcome>>
        ELSE /\ dirs' = dirs
             /\ idx' = idx
             /\ Raise(ErrIo)
    /\ UNCHANGED <<notCopy, from_commit, to_commit, current_commit, files, pass, set,
                   defer, head, wt, outfiles, w, calls, unstaged, staged>>

\* copy.rs 168: gc.checkout(file)?  (gitcheckout.rs 27-43)
Checkout ==
    /\ pc = "checkout"
    /\ \E ok \in BOOLEAN :
        /\ calls' = Append(calls, Call("gc.checkout", PassCommit(pass), File,
                                ok))
        /\ IF ok
           THEN /\ wt' = [wt EXCEPT ![File] = PassCommit(pass)]
                /\ pc' = "fscopy"
                /\ UNCHANGED <<pending, outcome>>
           ELSE /\ wt' = wt
                /\ Raise(ErrCheckout)
    /\ UNCHANGED <<notCopy, from_commit, to_commit, current_commit, files, pass, set,
                   idx, defer, head, dirs, outfiles, w, unstaged, staged>>

\* copy.rs 167-169: fs::copy(&source_file, &dest_file)?
CopyFile ==
    /\ pc = "fscopy"
    /\ \E ok \in BOOLEAN :
        IF ok
        THEN /\ outfiles' = outfiles
                    \cup {<<Join(PassDir(pass), File), wt[File]>>}
             /\ pc' = "writeln"
             /\ UNCHANGED <<pending, outcome>>
        ELSE /\ outfiles' = outfiles
             /\ Raise(ErrIo)
    /\ UNCHANGED <<notCopy, from_commit, to_commit, current_commit, files, pass, set,
                   idx, defer, head, wt, dirs, w, calls, unstaged, staged>>

\* copy.rs 170-175: the "Copied: source -> dest" line.
WriteCopied ==
    /\ pc = "writeln"
    /\ \E ok \in BOOLEAN :
        IF ok
        THEN /\ w' = Append(w, [pass |-> pass,
                                source |-> Join(RootDir, File),
                                dest |-> Join(PassDir(pass), File)])
             /\ pc' = "restore"
             /\ UNCHANGED <<pending, outcome>>
        ELSE /\ w' = w
             /\ Raise(ErrIo)
    /\ UNCHANGED <<notCopy, from_commit, to_commit, current_commit, files, pass, set,
                   idx, defer, head, wt, dirs, outfiles, calls, unstaged,
                   staged>>

\* Mutant: `gc_origin.checkout(file)?;`
RestoreResult_Propagated(ok) == IF ok THEN "none" ELSE ErrCheckout

\* copy.rs 177: what `let _ = gc_origin.checkout(file);` makes of the result.
RestoreResult(ok) == "none"

\* copy.rs 177: the path is checked out again from the original commit.
Restore ==
    /\ pc = "restore"
    /\ \E ok \in BOOLEAN :
        /\ calls' = Append(calls, Call("gc_origin.checkout", current_commit,
                                File, ok))
        /\ wt' = IF ok THEN [wt EXCEPT ![File] = current_commit] ELSE wt
        /\ IF RestoreResult(ok) = "none"
           THEN /\ idx' = [idx EXCEPT ![pass] = @ + 1]
                /\ pc' = "loop"
                /\ UNCHANGED <<pending, outcome>>
           ELSE /\ idx' = idx
                /\ Raise(RestoreResult(ok))
    /\ UNCHANGED <<notCopy, from_commit, to_commit, current_commit, files, pass, set,
                   defer, head, dirs, outfiles, w, unstaged, staged>>

\* Mutant: a pass that ran through its loop ends without its guard.
LoopEnd_SkipsGuard ==
    /\ pc = "loop"
    /\ idx[pass] = Len(files)
    /\ IF pass = "from"
       THEN pc' = "begin" /\ outcome' = outcome
       ELSE Return("Ok")
    /\ UNCHANGED <<notCopy, from_commit, to_commit, current_commit, files, pass, set,
                   idx, defer, pending, head, wt, dirs, outfiles, w, calls,
                   unstaged, staged>>

\* copy.rs 179-181: the loop is over, FilesCopyInner::copy returns Ok(()).
LoopEnd ==
    /\ pc = "loop"
    /\ idx[pass] = Len(files)
    /\ pc' = "drop"
    /\ UNCHANGED <<notCopy, from_commit, to_commit, current_commit, files, pass, set,
                   idx, defer, pending, outcome, head, wt, dirs, outfiles, w,
                   calls, unstaged, staged>>

\* copy.rs 158: the commit the GitReset handle of a pass is built with.
ResetCommit(e) == PassCommit(e)

\* Mutant: `let _ = gr.hard();` in the guard's closure.
DropResult_Swallowed(ok, result) == result

\* copy.rs 159, lib.rs 20-25: what the guard's closure `gr.hard().unwrap()`
\* makes of the pass's own result.
DropResult(ok, result) == IF ok THEN result ELSE PanicUnwrap

\* lib.rs 20-25 and gitreset.rs 27-42: the guard is dropped and runs
\* `git reset --hard`; then the pass's result reaches FilesCopy::copy
\* (copy.rs 96, 109-110).
DeferDrop ==
    /\ pc = "drop"
    /\ \E ok \in BOOLEAN :
        LET result == DropResult(ok, pending)
        IN  /\ calls' = Append(calls,
                               Call("gr.hard", ResetCommit(pass), <<>>, ok))
            /\ head' = IF ok THEN ResetCommit(pass) ELSE head
            /\ wt' = IF ok THEN [p \in Paths |-> ResetCommit(pass)] ELSE wt
            /\ IF result = "none" /\ pass = "from"
               THEN pc' = "begin" /\ outcome' = outcome
               ELSE Return(IF result = "none" THEN "Ok" ELSE result)
    /\ defer' = FALSE
    /\ pending' = "none"
    /\ UNCHANGED <<notCopy, from_commit, to_commit, current_commit, files, pass, set,
                   idx, dirs, outfiles, w, unstaged, staged>>

Next ==
    \/ CheckChanges
    \/ DiffFiles
    \/ CreateOutputDir
    \/ BeginPass
    \/ ListTree
    \/ MakeHandles
    \/ MakeDir
    \/ Checkout
    \/ CopyFile
    \/ WriteCopied
    \/ Restore
    \/ LoopEnd
    \/ DeferDrop

Spec == Init /\ [][Next]_vars

\* ------------------------------------------------- parser runs: the inputs

RECURSIVE TextsUpTo(_, _)
\* All texts over the characters A of length at most n.
TextsUpTo(A, n) ==
    IF n = 0 THEN {<<>>}
    ELSE LET shorter == TextsUpTo(A, n - 1)
         IN  shorter \cup {Append(t, ch) : t \in shorter, ch \in A}

\* The characters the parser looks for, a space and a letter.
LineChars == {"*", "-", "(", ")", "<", ">", " ", "a"}

\* Every line of at most MaxLineLen characters.
ShortLines == TextsUpTo(LineChars, MaxLineLen)

\* The fields of the lines `git log --graph --pretty=format:"%h -%d %s (%ci)
\* <%an>"` prints (onelinelog.rs 16): graph glyphs, padding, abbreviated hash,
\* decoration, subject, date and author name.
TreeHeads == {<<>>, <<"|", " ">>, <<"|", " ", "\\", " ">>}

Paddings == {<<>>, <<" ", " ">>}

Hashes == {<<"6">>, <<"e", "2">>}

AliasTexts == {<<"m">>, <<"H", " ", "-", ">", " ", "m">>, <<"d">>}

Dates == {<<"d">>, <<"2", "0", "-", "1">>}

Authors == {<<"N">>}

MsgChars == {"(", ")", "<", ">", "*", "-", "|", " ", "a"}

\* A subject has no space at either end.
Messages == {m \in TextsUpTo(MsgChars, MaxMsgLen) : Trim(m) = m}

\* The subjects without a parenthesis.
PlainMessages == {m \in Messages : \A i \in 1..Len(m) : m[i] \notin {"(", ")"}}

\* The fields of the template lines without an aliases group.
PlainFields ==
    {NewCommit(th, pad, h, None, m, d, a) :
        th \in TreeHeads, pad \in Paddings, h \in Hashes,
        m \in PlainMessages, d \in Dates, a \in Authors}

\* The fields of the template lines with an aliases group, their message
\* over MsgChars.
AliasFields ==
    {NewCommit(th, pad, h, Some(al), m, d, a) :
        th \in TreeHeads, pad \in Paddings, h \in Hashes, al \in AliasTexts,
        m \in Messages, d \in Dates, a \in Authors}

TemplateFields == PlainFields \cup AliasFields

\* `<tree_head>* <padding><hash> - [(<aliases>) ]<message> (<date>) <<author>>`
TemplateLine(c) ==
    c.tree_head \o <<"*", " ">> \o c.hash_padding \o c.hash
        \o <<" ", "-", " ">>
        \o (IF c.aliases.some
            THEN <<"(">> \o c.aliases.v \o <<")", " ">>
            ELSE <<>>)
        \o c.message \o <<" ", "(">> \o c.date
        \o <<")", " ", "<">> \o c.author \o <<">">>

\* The graph glyphs of `git log --graph` (gitlog.rs 25).
GraphChars == {"|", "\\", "/", " "}

\* Every line of at most MaxLineLen graph glyphs.
GraphLines == TextsUpTo(GraphChars, MaxLineLen)

\* Lines put together from what may stand before the `*`, the `*` or none,
\* the text up to the `-`, and the rest of the line: the fields of a log line
\* in and out of their places.
ProbeHeads == {<<>>, <<"|", " ">>, <<"-">>, <<"-", " ">>}

ProbeStars == {<<"*">>, <<>>}

ProbeHashFields == TextsUpTo({" ", "6"}, 2)

ProbeTails ==
    {<<>>,
     <<"-">>,
     <<"-", " ", "m", " ", "(", "d", ")", " ", "<", "N", ">">>,
     <<"-", " ", "a", "(", " ", "(", "d", ")", " ", "<", "N", ">">>,
     <<"-", " ", "(", "x", ")", " ", "m", " ", "(", "d", ")", " ", "<", "N", ">">>,
     <<"-", " ", "(", "x", ")", "(", "d", ")", " ", "<", "N", ">">>,
     <<"(", "d", ")", " ", "-", " ", "<", "N", ">">>,
     <<"-", " ", "m", " ", "(", "d", ")">>}

ProbeLines ==
    {h \o st \o f \o t :
        h \in ProbeHeads, st \in ProbeStars, f \in ProbeHashFields,
        t \in ProbeTails}

\* -------------------------------------------- parser runs: parse, render

\* A line arrives (gde-tui.rs 341 hands each line of `git log` to
\* OnelineLog::from): any short text, a line of graph glyphs, a line put
\* together from fields, or a line written in the template from the fields
\* kept in `given`.
ParseInit ==
    /\ CopyIdle
    /\ TuiIdle
    /\ LibIdle
    /\ ppc = "line"
    /\ \/ given = NoCommit /\ line \in ShortLines \cup GraphLines \cup ProbeLines
       \/ given \in TemplateFields /\ line = TemplateLine(given)
    /\ log = NoLog
    /\ text = <<>>

\* OnelineLog::from(line)
ParseLine ==
    /\ ppc = "line"
    /\ log' = OnelineLogFrom(line)
    /\ ppc' = "parsed"
    /\ UNCHANGED <<notParser, given, line, text>>

\* impl Display for OnelineLog
DisplayLog(l) == IF l.kind = "Commit" THEN Display(l.commit) ELSE l.branches

\* The parsed line is rendered (to_term_string, gde-tui.rs 47-52).
RenderLog ==
    /\ ppc = "parsed"
    /\ log.kind # "Panic"
    /\ text' = DisplayLog(log)
    /\ ppc' = "rendered"
    /\ UNCHANGED <<notParser, given, line, log>>

ParseNext ==
    \/ ParseLine
    \/ RenderLog

SpecParse == ParseInit /\ [][ParseNext]_vars

\* ------------------------------------------- parser runs: render, parse

\* Commit values as Commit::new accepts them: any text in any field.
GivenTreeHeads == {<<>>, <<"|", " ">>, <<"*", " ">>, <<"-">>, <<")">>}

GivenPaddings == {<<>>, <<" ", " ">>, <<"a">>}

GivenHashes == {<<>>, <<"6">>, <<" ">>, <<"6", " ">>, <<"6", "-">>, <<"(">>}

GivenAliases ==
    {None, Some(<<>>), Some(<<"d">>), Some(<<"(">>), Some(<<")">>),
     Some(<<"-", ">">>)}

GivenMessages == TextsUpTo({" ", "a", "("}, MaxMsgLen)

GivenDates == {<<"d">>, <<">">>, <<"2", "-", "1">>}

GivenAuthors == {<<"N">>, <<")">>, <<"<">>}

Commits ==
    {NewCommit(th, pad, h, al, m, d, a) :
        th \in GivenTreeHeads, pad \in GivenPaddings, h \in GivenHashes,
        al \in GivenAliases, m \in GivenMessages, d \in GivenDates,
        a \in GivenAuthors}

\* A Commit value is given (Commit::new).
RenderInit ==
    /\ CopyIdle
    /\ TuiIdle
    /\ LibIdle
    /\ ppc = "commit"
    /\ given \in Commits
    /\ line = <<>>
    /\ log = NoLog
    /\ text = <<>>

\* commit.to_string()
RenderCommit ==
    /\ ppc = "commit"
    /\ line' = Display(given)
    /\ ppc' = "line"
    /\ UNCHANGED <<notParser, given, log, text>>

RenderNext ==
    \/ RenderCommit
    \/ ParseLine

SpecRender == RenderInit /\ [][RenderNext]_vars

\* ------------------------------------ StatefullTermOnelineLog (gde-tui.rs)

\* An OnelineLog as the picker reads it: its variant and, of a Commit, hash()
\* and message().
CommitEntry(h) == [kind |-> "Commit", hash |-> h, message |-> "m"]

BranchesEntry == [kind |-> "TreeBranches", hash |-> "", message |-> ""]

\* The lists of at most MaxItems lines, no commit twice.
ItemLists ==
    {l \in SeqsUpTo({BranchesEntry} \cup {CommitEntry(h) : h \in Revs}, MaxItems) :
        \A i, j \in 1..Len(l) :
            (i # j /\ l[i].kind = "Commit") => l[i] # l[j]}

\* The activations of get_next / get_prev the stack has room for: more than
\* any search that ends needs.
MaxDepth == MaxItems + 2

\* Mutant: every line counts as a commit.
IsCommit_Any(item) == TRUE

\* `if let OnelineLog::Commit(_) = &item`
IsCommit(item) == item.kind = "Commit"

\* Mutant: the search starts at the cursor.
NextStart_FromCursor(sel) == IF sel # NoPos THEN sel ELSE 0

\* The argument of the get_next that next() calls (gde-tui.rs 68-72).
NextStart(sel) == IF sel # NoPos THEN sel + 1 ELSE 0

\* The argument of the get_prev that prev() calls (gde-tui.rs 90-98).
PrevStart(sel, len) ==
    IF sel # NoPos THEN (IF sel > 0 THEN sel - 1 ELSE len - 1) ELSE 0

\* `return i`
Found(i) == [ret |-> TRUE, i |-> i, wrap |-> FALSE]

\* `return self.get_next(i + 1)` / `return self.get_prev(i - 1)`
Recurse(i) == [ret |-> FALSE, i |-> i, wrap |-> FALSE]

\* The last line of both: `self.get_next(0)` / `self.get_prev(0)`
Wrap == [ret |-> FALSE, i |-> 0, wrap |-> TRUE]

\* Mutant: a search that ran off the end gives index 0.
GetNextStep_GivesUp(its, i) ==
    IF i < Len(its) /\ IsCommit(its[i + 1]) THEN Found(i)
    ELSE IF i < Len(its) /\ i + 1 < Len(its) THEN Recurse(i + 1)
    ELSE Found(0)

\* One activation of get_next(i) (gde-tui.rs 77-87).
GetNextStep(its, i) ==
    IF i < Len(its) /\ IsCommit(its[i + 1]) THEN Found(i)
    ELSE IF i < Len(its) /\ i + 1 < Len(its) THEN Recurse(i + 1)
    ELSE Wrap

\* One activation of get_prev(i) (gde-tui.rs 103-113).
GetPrevStep(its, i) ==
    IF i < Len(its) /\ IsCommit(its[i + 1]) THEN Found(i)
    ELSE IF i < Len(its) /\ i > 0 THEN Recurse(i - 1)
    ELSE Wrap

\* StatefullTermOnelineLog::current
Current == IF selected # NoPos THEN items[selected + 1] ELSE BranchesEntry

\* next() calls get_next.
BeginNext ==
    /\ npc = "idle"
    /\ npc' = "get_next"
    /\ arg' = NextStart(selected)
    /\ depth' = 1
    /\ wrapped' = FALSE
    /\ UNCHANGED <<items, selected>>

\* prev() calls get_prev.
BeginPrev ==
    /\ npc = "idle"
    /\ npc' = "get_prev"
    /\ arg' = PrevStart(selected, Len(items))
    /\ depth' = 1
    /\ wrapped' = FALSE
    /\ UNCHANGED <<items, selected>>

\* What one activation leads to: the index is returned up the stack and
\* selected, or the function calls itself.  The call reuses the frame (a tail
\* call) or takes a new one; when the stack is full, a new one overflows it.
Activation(r) ==
    IF r.ret
    THEN /\ selected' = r.i
         /\ npc' = "idle"
         /\ UNCHANGED <<arg, depth, wrapped>>
    ELSE /\ arg' = r.i
         /\ wrapped' = (wrapped \/ r.wrap)
         /\ \/ depth < MaxDepth /\ depth' = depth + 1 /\ UNCHANGED npc
            \/ depth = MaxDepth /\ UNCHANGED <<depth, npc>>
            \/ depth = MaxDepth /\ npc' = "overflow" /\ UNCHANGED depth
         /\ UNCHANGED selected

\* get_next(arg) runs.
GetNext ==
    /\ npc = "get_next"
    /\ Activation(GetNextStep(items, arg))
    /\ UNCHANGED <<copyVars, parserVars, libVars, tpc, items, called, run_from_commit,
                   run_to_commit, notice_msg, picked, key>>

\* get_prev(arg) runs.
GetPrev ==
    /\ npc = "get_prev"
    /\ Activation(GetPrevStep(items, arg))
    /\ UNCHANGED <<copyVars, parserVars, libVars, tpc, items, called, run_from_commit,
                   run_to_commit, notice_msg, picked, key>>

\* A caller holds the list and calls next() / prev() in any order.
NavInit ==
    /\ CopyIdle
    /\ ParserIdle
    /\ LibIdle
    /\ tpc = "api"
    /\ items \in ItemLists
    /\ selected = NoPos
    /\ npc = "idle"
    /\ arg = 0
    /\ depth = 0
    /\ wrapped = FALSE
    /\ called = <<>>
    /\ run_from_commit = NoInfo
    /\ run_to_commit = NoInfo
    /\ notice_msg = NoNotice
    /\ picked = NoPair
    /\ key = ""

\* A call of the list's caller: the method and the cursor it found.
ApiCall(op, sel) == [op |-> op, from |-> sel]

\* The two calls made last.
LastTwo(cs) == IF Len(cs) > 2 THEN Tail(cs) ELSE cs

\* StatefullTermOnelineLog::next is called.
SelectNext ==
    /\ tpc = "api"
    /\ BeginNext
    /\ called' = LastTwo(Append(called, ApiCall("next", selected)))
    /\ UNCHANGED <<copyVars, parserVars, libVars, tpc, run_from_commit, run_to_commit,
                   notice_msg, picked, key>>

\* StatefullTermOnelineLog::prev is called.
SelectPrev ==
    /\ tpc = "api"
    /\ BeginPrev
    /\ called' = LastTwo(Append(called, ApiCall("prev", selected)))
    /\ UNCHANGED <<copyVars, parserVars, libVars, tpc, run_from_commit, run_to_commit,
                   notice_msg, picked, key>>

NavNext ==
    \/ SelectNext
    \/ SelectPrev
    \/ GetNext
    \/ GetPrev

SpecNav == NavInit /\ [][NavNext]_vars

\* A running get_next / get_prev goes on running: the thread is never
\* descheduled for good.
SpecNavFair == SpecNav /\ WF_vars(GetNext) /\ WF_vars(GetPrev)


\* ------------------------------------- GdeTerminal::run, main (gde-tui.rs)

\* gde-tui starts: the log lines are parsed and handed to GdeTerminal::run.
TuiInit ==
    /\ CopyIdle
    /\ ParserIdle
    /\ LibIdle
    /\ tpc = "start"
    /\ items \in ItemLists
    /\ selected = NoPos
    /\ npc = "idle"
    /\ arg = 0
    /\ depth = 0
    /\ wrapped = FALSE
    /\ called = <<>>
    /\ run_from_commit = NoInfo
    /\ run_to_commit = NoInfo
    /\ notice_msg = NoNotice
    /\ picked = NoPair
    /\ key = ""

\* `sl.next()` before the first frame (gde-tui.rs 180-181).
RunStart ==
    /\ tpc = "start"
    /\ BeginNext
    /\ tpc' = "keys"
    /\ UNCHANGED <<copyVars, parserVars, libVars, called, run_from_commit, run_to_commit,
                   notice_msg, picked, key>>

\* The frame is drawn and event::read() waits for a key.
InKeys == tpc = "keys" /\ npc = "idle"

\* `break 'outer` and the match behind the loop (gde-tui.rs 310-313).
Break ==
    /\ tpc' = "returned"
    /\ picked' = IF run_from_commit.some /\ run_to_commit.some
                 THEN Pair(run_from_commit.hash, run_to_commit.hash)
                 ELSE NoPair

\* Esc, or Ctrl-C (gde-tui.rs 251-252).
KeyEsc ==
    /\ InKeys
    /\ key' \in {"Esc", "Ctrl-C"}
    /\ Break
    /\ UNCHANGED <<copyVars, parserVars, libVars, navVars, run_from_commit,
                   run_to_commit, notice_msg>>

\* The notice of an Enter that does not end the loop (gde-tui.rs 253-276).
EnterNotice(from, to) ==
    IF from.some /\ to.some
    THEN Notice("Select different commits for \"From Commit\" and \"To Commit\"", "")
    ELSE IF from.some THEN Notice("\"To Commit\" is not selected", "")
    ELSE IF to.some THEN Notice("\"From Commit\" is not selected", "")
    ELSE Notice("\"From Commit\" and \"To Commit\" are not selected", "")

\* Mutant: Enter ends the loop whenever both commits are selected.
KeyEnter_AnyPair ==
    /\ InKeys
    /\ key' = "Enter"
    /\ IF run_from_commit.some /\ run_to_commit.some
       THEN Break /\ UNCHANGED notice_msg
       ELSE /\ notice_msg' = EnterNotice(run_from_commit, run_to_commit)
            /\ UNCHANGED <<tpc, picked>>
    /\ UNCHANGED <<copyVars, parserVars, libVars, navVars, run_from_commit,
                   run_to_commit>>

\* Enter (gde-tui.rs 253-276).
KeyEnter ==
    /\ InKeys
    /\ key' = "Enter"
    /\ IF /\ run_from_commit.some
          /\ run_to_commit.some
          /\ run_from_commit.hash # run_to_commit.hash
       THEN Break /\ UNCHANGED notice_msg
       ELSE /\ notice_msg' = EnterNotice(run_from_commit, run_to_commit)
            /\ UNCHANGED <<tpc, picked>>
    /\ UNCHANGED <<copyVars, parserVars, libVars, navVars, run_from_commit,
                   run_to_commit>>

\* Down (gde-tui.rs 277-280).
KeyDown ==
    /\ InKeys
    /\ key' = "Down"
    /\ BeginNext
    /\ UNCHANGED <<copyVars, parserVars, libVars, called, tpc, run_from_commit, run_to_commit,
                   notice_msg, picked>>

\* Up (gde-tui.rs 281-284).
KeyUp ==
    /\ InKeys
    /\ key' = "Up"
    /\ BeginPrev
    /\ UNCHANGED <<copyVars, parserVars, libVars, called, tpc, run_from_commit, run_to_commit,
                   notice_msg, picked>>

\* What `f` / `t` select: the Commit under the cursor, or nothing.
Selection == IF selected # NoPos /\ IsCommit(Current)
             THEN CommitInfo(Current.hash, Current.message)
             ELSE NoInfo

\* `f` (gde-tui.rs 285-294).
KeyF ==
    /\ InKeys
    /\ key' = "f"
    /\ run_from_commit' = Selection
    /\ notice_msg' = IF Selection.some
                     THEN Notice("Selected as \"From Commit\"", Selection.hash)
                     ELSE Notice("Cleared the \"From Commit\"", "")
    /\ UNCHANGED <<copyVars, parserVars, libVars, tpc, navVars, run_to_commit, picked>>

\* `t` (gde-tui.rs 295-304).
KeyT ==
    /\ InKeys
    /\ key' = "t"
    /\ run_to_commit' = Selection
    /\ notice_msg' = IF Selection.some
                     THEN Notice("Selected as \"To Commit\"", Selection.hash)
                     ELSE Notice("Cleared the \"To Commit\"", "")
    /\ UNCHANGED <<copyVars, parserVars, libVars, tpc, navVars, run_from_commit, picked>>

\* Drawing the frame or reading the event fails: run returns the error
\* (gde-tui.rs 247, 249).
ReadFails ==
    /\ InKeys
    /\ tpc' = "failed"
    /\ key' = ""
    /\ UNCHANGED <<copyVars, parserVars, libVars, navVars, run_from_commit,
                   run_to_commit, notice_msg, picked>>

\* main with no pair selected: `Ok(())` (gde-tui.rs 346, 366).
MainExit ==
    /\ tpc = "returned"
    /\ ~picked.some
    /\ tpc' = "exit"
    /\ UNCHANGED <<copyVars, parserVars, libVars, navVars, run_from_commit,
                   run_to_commit, notice_msg, picked, key>>

\* restore_terminal, absolute_path or get_hash fails (gde-tui.rs 344-353).
MainFails ==
    /\ tpc = "returned"
    /\ tpc' = "failed"
    /\ UNCHANGED <<copyVars, parserVars, libVars, navVars, run_from_commit,
                   run_to_commit, notice_msg, picked, key>>

\* main with a pair: the list is gone with run, HEAD is read and
\* FilesCopy::new(from, to, .., current_commit) is about to copy
\* (gde-tui.rs 346-364).
StartCopy ==
    /\ tpc = "returned"
    /\ picked.some
    /\ tpc' = "copy"
    /\ items' = <<>>
    /\ selected' = NoPos
    /\ npc' = "idle"
    /\ arg' = 0
    /\ depth' = 0
    /\ wrapped' = FALSE
    /\ called' = <<>>
    /\ run_from_commit' = NoInfo
    /\ run_to_commit' = NoInfo
    /\ notice_msg' = NoNotice
    /\ picked' = NoPair
    /\ key' = ""
    /\ pc' = "check"
    /\ from_commit' = picked.from
    /\ to_commit' = picked.to
    /\ current_commit' \in Revs
    /\ head' = current_commit'
    /\ wt' = [p \in Paths |-> current_commit']
    /\ UNCHANGED <<parserVars, libVars, files, pass, set, idx, defer, pending,
                   outcome,
                   dirs, outfiles, w, calls, unstaged, staged>>

TuiNext ==
    \/ RunStart
    \/ GetNext
    \/ GetPrev
    \/ KeyEsc
    \/ KeyEnter
    \/ KeyDown
    \/ KeyUp
    \/ KeyF
    \/ KeyT
    \/ ReadFails
    \/ MainExit
    \/ MainFails
    \/ StartCopy
    \/ Next

SpecTui == TuiInit /\ [][TuiNext]_vars


\* ------------------------------------------------ gde: main (bin/gde.rs)

\* The copy variables main and its FilesCopy::copy leave alone or set.
cliKept == <<notCopy, from_commit, to_commit, current_commit, defer, pending,
             head, unstaged, staged>>

\* gde.rs 40-67: the command line is parsed and the directories are known;
\* the working tree is at the current commit.
CliInit ==
    /\ ParserIdle
    /\ TuiIdle
    /\ LibIdle
    /\ pc = "cli_check"
    /\ from_commit \in Revs
    /\ to_commit \in Revs
    /\ current_commit \in Revs
    /\ files = <<>>
    /\ pass = "none"
    /\ set = [e \in {"from", "to"} |-> [listed |-> FALSE, names |-> {}]]
    /\ idx = [e \in {"from", "to"} |-> 0]
    /\ defer = FALSE
    /\ pending = "none"
    /\ outcome = "none"
    /\ head = current_commit
    /\ wt = [p \in Paths |-> current_commit]
    /\ dirs = {}
    /\ outfiles = {}
    /\ w = <<>>
    /\ calls = <<>>
    /\ unstaged = NotRun
    /\ staged = NotRun

\* `?` or bail! out of main, or its `Ok(())`.
CliReturn(result) ==
    /\ outcome' = result
    /\ pc' = "cli_done"

\* gde.rs 70-73: the dirty check, the same two queries as copy.rs 52-55.
CliCheckChanges ==
    /\ pc = "cli_check"
    /\ \E hOk \in BOOLEAN, u \in DiffResults, s \in DiffResults \cup {NotRun} :
        /\ (s = NotRun) <=> (~hOk \/ u # Res("ok", <<>>))
        /\ hOk \/ u.st = "failed"
        /\ calls' = calls
                \o (IF hOk THEN <<Call("diff.name_only", "HEAD", <<>>, u.st = "ok")>>
                    ELSE <<>>)
                \o (IF s # NotRun
                    THEN <<Call("diff.staged_name_only", "HEAD", <<>>,
                               s.st = "ok")>>
                    ELSE <<>>)
        /\ IF ~hOk THEN CliReturn(ErrRootDir)
           ELSE IF u.st = "failed" \/ s.st = "failed" THEN CliReturn(ErrDiff)
           ELSE IF IsDirty(u.list, s.list) THEN CliReturn(ErrDirty)
           ELSE pc' = "cli_diff" /\ outcome' = outcome
    /\ UNCHANGED <<cliKept, files, pass, set, idx, wt, dirs, outfiles, w>>

\* gde.rs 75-80: the changed paths between the two commits, printed; an
\* empty list does not end the run.
CliDiffFiles ==
    /\ pc = "cli_diff"
    /\ \E hOk \in BOOLEAN, r \in DiffResults :
        /\ hOk \/ r.st = "failed"
        /\ (from_commit = to_commit) => r.list = <<>>
        /\ calls' = IF hOk
                    THEN Append(calls, Call("diff.name_only", from_commit, <<>>,
                                            r.st = "ok"))
                    ELSE calls
        /\ files' = IF hOk THEN r.list ELSE files
        /\ IF ~hOk THEN CliReturn(ErrRootDir)
           ELSE IF r.st = "failed" THEN CliReturn(ErrDiff)
           ELSE pc' = "cli_begin" /\ outcome' = outcome
    /\ UNCHANGED <<cliKept, pass, set, idx, wt, dirs, outfiles, w>>

\* gde.rs 83-85 and 89-91: FilesCopy::new for "from", then for "to".
CliBeginPass ==
    /\ pc = "cli_begin"
    /\ pass' = (IF pass = "none" THEN "from" ELSE "to")
    /\ pc' = "cli_lstree"
    /\ UNCHANGED <<cliKept, files, set, idx, outcome, wt, dirs, outfiles, w,
                   calls>>

\* gde.rs 128-130: the tree listing into `set` and the GitCheckout handle.
CliListTree ==
    /\ pc = "cli_lstree"
    /\ \E hOk \in BOOLEAN, lOk \in BOOLEAN, gOk \in BOOLEAN,
          r \in Listings(pass) :
        /\ (~hOk \/ ~lOk) => (r = {} /\ gOk)
        /\ hOk \/ ~lOk
        /\ calls' = IF hOk
                    THEN Append(calls, Call("gitls.name_only", PassCommit(pass),
                                            <<>>,
                                            lOk))
                    ELSE calls
        /\ set' = IF lOk
                  THEN [set EXCEPT ![pass] = [listed |-> TRUE, names |-> r]]
                  ELSE set
        /\ IF ~hOk \/ ~gOk THEN CliReturn(ErrRootDir)
           ELSE IF ~lOk THEN CliReturn(ErrLsTree)
           ELSE pc' = "cli_loop" /\ outcome' = outcome
    /\ UNCHANGED <<cliKept, files, pass, idx, wt, dirs, outfiles, w>>

\* gde.rs 132-137: the destination directory of the next path; a path the
\* commit does not hold ends the iteration here.
CliMakeDir ==
    /\ pc = "cli_loop"
    /\ idx[pass] < Len(files)
    /\ \E ok \in BOOLEAN :
        IF ok
        THEN /\ dirs' = dirs
                    \cup CreateDirAll(Join(PassDir(pass), ParentDir(File)))
             /\ IF Copies(File, set[pass].names)
                THEN pc' = "cli_checkout" /\ idx' = idx
                ELSE pc' = "cli_loop" /\ idx' = [idx EXCEPT ![pass] = @ + 1]
             /\ outcome' = outcome
        ELSE /\ dirs' = dirs
             /\ idx' = idx
             /\ CliReturn(ErrIo)
    /\ UNCHANGED <<cliKept, files, pass, set, wt, outfiles, w, calls>>

\* gde.rs 139: gc.checkout(file)?  (gitcheckout.rs 27-43)
CliCheckout ==
    /\ pc = "cli_checkout"
    /\ \E ok \in BOOLEAN :
        /\ calls' = Append(calls, Call("gc.checkout", PassCommit(pass), File,
                                ok))
        /\ IF ok
           THEN /\ wt' = [wt EXCEPT ![File] = PassCommit(pass)]
                /\ pc' = "cli_fscopy"
                /\ outcome' = outcome
           ELSE /\ wt' = wt
                /\ CliReturn(ErrCheckout)
    /\ UNCHANGED <<cliKept, files, pass, set, idx, dirs, outfiles, w>>

\* gde.rs 140-146: fs::copy(&source_file, &dest_file)? and the "Copied" line;
\* the path is not checked out again afterwards.
CliCopyFile ==
    /\ pc = "cli_fscopy"
    /\ \E ok \in BOOLEAN :
        IF ok
        THEN /\ outfiles' = outfiles
                    \cup {<<Join(PassDir(pass), File), wt[File]>>}
             /\ w' = Append(w, [pass |-> pass,
                                source |-> Join(RootDir, File),
                                dest |-> Join(PassDir(pass), File)])
             /\ idx' = [idx EXCEPT ![pass] = @ + 1]
             /\ pc' = "cli_loop"
             /\ outcome' = outcome
        ELSE /\ UNCHANGED <<outfiles, w, idx>>
             /\ CliReturn(ErrIo)
    /\ UNCHANGED <<cliKept, files, pass, set, wt, dirs, calls>>

\* gde.rs 147-149, 86 and 92-96: the loop is over and FilesCopy::copy returns
\* Ok(()): the "to" pass follows the "from" pass, "done" follows the "to" pass.
CliLoopEnd ==
    /\ pc = "cli_loop"
    /\ idx[pass] = Len(files)
    /\ IF pass = "from"
       THEN pc' = "cli_begin" /\ outcome' = outcome
       ELSE CliReturn("Ok")
    /\ UNCHANGED <<cliKept, files, pass, set, idx, wt, dirs, outfiles, w,
                   calls>>

CliNext ==
    \/ CliCheckChanges
    \/ CliDiffFiles
    \/ CliBeginPass
    \/ CliListTree
    \/ CliMakeDir
    \/ CliCheckout
    \/ CliCopyFile
    \/ CliLoopEnd

SpecCli == CliInit /\ [][CliNext]_vars


\* ------------------------------------------------------- Defer (lib.rs)

\* What a FilesCopy, parser, picker or Git::exec run is, seen from a scope.
notGuard == <<copyVars, parserVars, tuiVars, execVars>>

\* An entry of `events`: Defer::new, Defer::cancel, the drop of the value, or
\* a run of its closure.
Event(ev, g) == [ev |-> ev, g |-> g]

\* The ways a scope is left: its end is reached, a `return` or `?`, a panic
\* unwinding through it.
Exits == {"end", "return", "unwind"}

\* A scope is entered; it will make its Defer values one after another.
DeferInit ==
    /\ CopyIdle
    /\ ParserIdle
    /\ TuiIdle
    /\ ExecIdle
    /\ guard = [g \in Guards |-> Unborn]
    /\ scope = "body"
    /\ events = <<>>

\* Defer::new (lib.rs 11-13): `Self { f: Some(f) }`
DeferNew ==
    /\ scope = "body"
    /\ \E g \in Guards :
        /\ guard[g].st = "unborn"
        /\ \A h \in Guards : h < g => guard[h].st # "unborn"
        /\ guard' = [guard EXCEPT ![g] = [st |-> "live", f |-> "Some"]]
        /\ events' = Append(events, Event("new", g))
    /\ UNCHANGED <<notGuard, scope>>

\* Defer::cancel (lib.rs 15-17): `self.f = None`
DeferCancel ==
    /\ scope = "body"
    /\ Cardinality({k \in 1..Len(events) : events[k].ev = "cancel"}) < MaxCancels
    /\ \E g \in Guards :
        /\ guard[g].st = "live"
        /\ guard' = [guard EXCEPT ![g].f = "None"]
        /\ events' = Append(events, Event("cancel", g))
    /\ UNCHANGED <<notGuard, scope>>

\* The scope is left, in one of the three ways.
ScopeExit ==
    /\ scope = "body"
    /\ scope' \in Exits
    /\ UNCHANGED <<notGuard, guard, events>>

\* Mutant: the closure runs whatever `f` holds.
DropRuns_Always(f) == TRUE

\* lib.rs 22: `if let Some(f) = self.f.take()`, whether drop runs the closure.
DropRuns(f) == f = "Some"

\* The Defer values that may be dropped now: any live one while the scope
\* runs (it is moved into `drop`), the one made last once the scope is left
\* (locals are dropped in the reverse order of their declaration).
Droppable ==
    {g \in Guards :
        /\ guard[g].st = "live"
        /\ \/ scope = "body"
           \/ scope \in Exits /\ \A h \in Guards : h > g => guard[h].st # "live"}

\* Drop for Defer (lib.rs 20-25): `f` is taken and, if it was Some, called.
GuardDrop ==
    /\ \E g \in Droppable :
        /\ guard' = [guard EXCEPT ![g] = [st |-> "dropped", f |-> "None"]]
        /\ events' = events \o <<Event("drop", g)>>
                     \o (IF DropRuns(guard[g].f) THEN <<Event("run", g)>>
                         ELSE <<>>)
    /\ UNCHANGED <<notGuard, scope>>

DeferNext ==
    \/ DeferNew
    \/ DeferCancel
    \/ ScopeExit
    \/ GuardDrop

SpecDefer == DeferInit /\ [][DeferNext]_vars


\* ------------------------------------------------- Git::exec (git/mod.rs)

\* What a FilesCopy, parser, picker or Defer run is, seen from Git::exec.
notExec == <<copyVars, parserVars, tuiVars, guardVars>>

\* A caller is about to call Git::exec, the process in some directory.
ExecInit ==
    /\ CopyIdle
    /\ ParserIdle
    /\ TuiIdle
    /\ GuardIdle
    /\ cwd \in Dirs
    /\ epc = "caller"
    /\ target_dir = ""
    /\ prev_dir = ""
    /\ f_ret = "none"
    /\ returned = "none"
    /\ origin = ""
    /\ f_runs = 0
    /\ execs = 0

\* Git::change_currentdir (git/mod.rs 129-133) called in directory `now`:
\* Ok(dir) with the process in `to`, or the Err of current_dir() or of
\* set_current_dir() with the process where it was.
ChangeCurrentDir(now, to) ==
    {[ok |-> TRUE, cwd |-> to, dir |-> now],
     [ok |-> FALSE, cwd |-> now, dir |-> ""]}

\* Git::exec is called (git/mod.rs 63-67).
ExecCall ==
    /\ epc \in {"caller", "returned"}
    /\ execs < MaxExecs
    /\ target_dir' \in Dirs
    /\ epc' = "enter"
    /\ origin' = cwd
    /\ prev_dir' = ""
    /\ f_ret' = "none"
    /\ returned' = "none"
    /\ f_runs' = 0
    /\ execs' = execs + 1
    /\ UNCHANGED <<notExec, cwd>>

\* git/mod.rs 68: `let dir = Self::change_currentdir(target_dir)?;`
ExecEnter ==
    /\ epc = "enter"
    /\ \E o \in ChangeCurrentDir(cwd, target_dir) :
        /\ cwd' = o.cwd
        /\ prev_dir' = o.dir
        /\ IF o.ok
           THEN epc' = "run" /\ returned' = returned
           ELSE epc' = "returned" /\ returned' = ErrIo
    /\ UNCHANGED <<notExec, target_dir, f_ret, origin, f_runs, execs>>

\* git/mod.rs 69: `let ret = f(&self.path);`  The closure runs git and gives
\* Ok or its own Err; it does not change the directory.
ExecRun ==
    /\ epc = "run"
    /\ f_ret' \in {"Ok", "Err"}
    /\ f_runs' = f_runs + 1
    /\ epc' = "back"
    /\ UNCHANGED <<notExec, cwd, target_dir, prev_dir, returned, origin, execs>>

\* Mutant: the directory exec goes to after the closure is target_dir again.
BackTo_Target(saved, target) == target

\* git/mod.rs 70: the argument of the second change_currentdir, `dir`.
BackTo(saved, target) == saved

\* git/mod.rs 70-71: `Self::change_currentdir(dir)?; ret`
ExecBack ==
    /\ epc = "back"
    /\ \E o \in ChangeCurrentDir(cwd, BackTo(prev_dir, target_dir)) :
        /\ cwd' = o.cwd
        /\ returned' = IF o.ok THEN f_ret ELSE ErrIo
    /\ epc' = "returned"
    /\ UNCHANGED <<notExec, target_dir, prev_dir, f_ret, origin, f_runs, execs>>

ExecNext ==
    \/ ExecCall
    \/ ExecEnter
    \/ ExecRun
    \/ ExecBack

SpecExec == ExecInit /\ [][ExecNext]_vars


\* ================================================================ claims

\* The positions in `calls` of the calls of one method.
CallsOf(op) == {i \in 1..Len(calls) : calls[i].op = op}

\* The calls that list a tree, materialize a path or reset the working tree.
TreeCalls ==
    CallsOf("gitls.name_only") \cup CallsOf("gc.checkout")
        \cup CallsOf("gc_origin.checkout") \cup CallsOf("gr.hard")

\* FilesCopy::copy has returned to its caller (a panic does not return).
Returned == pc = "done" /\ outcome \in Errors \cup {"Ok"}

\* How many FilesCopyInner::copy calls were made.
PassesBegun == IF pass = "none" THEN 0 ELSE IF pass = "from" THEN 1 ELSE 2

LastCall == calls[Len(calls)]

\* C1: after FilesCopy::copy returns, with Ok or with an Err, HEAD and every
\* path of the working tree are at the commit given as current_commit.
C1_RestoredOnReturn ==
    Returned => (head = current_commit /\ \A p \in Paths : wt[p] = current_commit)

C3_DirtyRejected ==
    (\/ (unstaged.st = "ok" /\ unstaged.list # <<>>)
     \/ (staged.st = "ok" /\ staged.list # <<>>))
        => /\ pc = "done"
           /\ outcome = ErrDirty
           /\ TreeCalls = {}
           /\ dirs = {}
           /\ outfiles = {}

\* C3 witness: the unstaged list was empty and the staged list was not.
C3_StagedOnlyDirty ==
    /\ unstaged = Res("ok", <<>>)
    /\ staged.st = "ok"
    /\ staged.list # <<>>
    /\ outcome = ErrDirty

\* The from..to query came back with an empty list.
EmptyDiff ==
    /\ pc = "done"
    /\ files = <<>>
    /\ \E i \in CallsOf("diff.name_only") :
           calls[i] = Call("diff.name_only", from_commit, <<>>, TRUE)

\* C4 as stated: on an empty changed-path list copy returns Ok with no copy
\* entry, no directory and no tree call.
C4_EmptyDiffSucceeds ==
    EmptyDiff => /\ outcome = "Ok"
                 /\ w = <<>>
                 /\ dirs = {}
                 /\ outfiles = {}
                 /\ TreeCalls = {}

\* C4, amended: on an empty changed-path list copy has no copy entry, no
\* directory and no tree call, and returns Ok unless the write of the "no
\* files with differences" line fails, which it returns as the io error.
C4_EmptyDiffNoEffect ==
    EmptyDiff => /\ outcome \in {"Ok", ErrIo}
                 /\ w = <<>>
                 /\ dirs = {}
                 /\ outfiles = {}
                 /\ TreeCalls = {}

\* C4 witness: an empty list between two different commits, returned as Ok.
C4_EmptyDiffOk == EmptyDiff /\ outcome = "Ok" /\ from_commit # to_commit

\* The positions of the per-path restores that failed.
FailedRestores == {i \in CallsOf("gc_origin.checkout") : ~calls[i].ok}

C6_HardResetFailureIsLoud ==
    /\ (\E i \in CallsOf("gr.hard") : ~calls[i].ok)
           => /\ pc = "done"
              /\ outcome = PanicUnwrap
              /\ ~LastCall.ok
              /\ LastCall.op = "gr.hard"
    /\ outcome = PanicUnwrap
           => /\ outcome \notin Errors \cup {"Ok"}
              /\ calls # <<>>
              /\ LastCall.op = "gr.hard"
              /\ ~LastCall.ok

\* C6 witness: the pass was already returning a materialize failure when its
\* hard reset failed.
C6_ResetFailedAfterError ==
    /\ outcome = PanicUnwrap
    /\ Len(calls) >= 2
    /\ calls[Len(calls) - 1].op = "gc.checkout"
    /\ ~calls[Len(calls) - 1].ok

\* The changed paths whose loop iteration by pass e is complete and which the
\* commit of e does not hold.
AbsentDone(e) ==
    {i \in 1..idx[e] : set[e].listed /\ files[i] \notin set[e].names}

\* C7: for a changed path the commit of a pass does not hold, the pass has
\* created the directory mirroring the path's parent under its output
\* subdirectory, has materialized nothing for it and has recorded no copy.
C7_AbsentPathGetsDirOnly ==
    \A e \in {"from", "to"} : \A i \in AbsentDone(e) :
        /\ Join(PassDir(e), ParentDir(files[i])) \in dirs
        /\ \A j \in CallsOf("gc.checkout") :
               ~(calls[j].commit = PassCommit(e) /\ calls[j].path = files[i])
        /\ \A k \in 1..Len(w) : w[k].dest # Join(PassDir(e), files[i])
        /\ \A f \in outfiles : f[1] # Join(PassDir(e), files[i])

\* C7 witness: a successful run whose "from" commit lacks a changed path that
\* lies in a subdirectory.
C7_AbsentInFrom ==
    /\ outcome = "Ok"
    /\ \E i \in AbsentDone("from") : Len(files[i]) > 1

\* C8: OnelineLog::from returns a Commit or a TreeBranches for every line.
C8_ParseTotal == ppc # "line" => log.kind \in {"Commit", "TreeBranches"}

\* Whether a text holds one of the characters S.
Has(t, S) == \E i \in 1..Len(t) : t[i] \in S

Delimiters == {"(", ")", "<", ">"}

\* C9 as stated: a Commit with a non-empty hash whose message, date and author
\* hold no delimiter parses, once rendered, to an equal Commit.
C9_RenderParse ==
    (/\ ppc = "parsed"
     /\ given.hash # <<>>
     /\ ~Has(given.message, Delimiters)
     /\ ~Has(given.date, Delimiters)
     /\ ~Has(given.author, Delimiters))
        => log = LogCommit(given)

\* The Commit values the parser's position heuristic gives back unchanged.
Plain(c) ==
    /\ ~Has(c.tree_head, {"*", "-", "(", ")"})
    /\ \A i \in 1..Len(c.hash_padding) : c.hash_padding[i] = " "
    /\ c.hash # <<>>
    /\ Trim(c.hash) = c.hash
    /\ ~Has(c.hash, {"-", "(", ")"})
    /\ c.aliases.some => (~Has(c.aliases.v, {")"}) /\ c.aliases.v # c.date)
    /\ ~Has(c.message, Delimiters)
    /\ Trim(c.message) = c.message
    /\ ~Has(c.date, Delimiters)
    /\ ~Has(c.author, Delimiters)

\* C9, amended: rendering then parsing gives an equal Commit when, besides the
\* stated conditions, tree_head holds no `*`, `-`, `(`, `)`, hash_padding is
\* spaces only, hash has no space at either end and no `-`, `(`, `)`, message
\* has no space at either end, and aliases, when present, hold no `)` and
\* differ from date.
C9_RenderParsePlain == (ppc = "parsed" /\ Plain(given)) => log = LogCommit(given)

\* C9 witness: a plain Commit with aliases, padding and a tree head came back.
C9_PlainRoundTrip ==
    /\ ppc = "parsed"
    /\ Plain(given)
    /\ given.aliases.some
    /\ given.hash_padding # <<>>
    /\ given.tree_head # <<>>
    /\ given.message # <<>>
    /\ log = LogCommit(given)

Twin(c) == c.aliases = Some(c.date) /\ c.message = <<>>

At(l, ch) == {i \in 1..Len(l) : l[i] = ch}

\* The least / greatest of a non-empty set of positions.
Least(S) == CHOOSE i \in S : \A j \in S : i <= j

Greatest(S) == CHOOSE i \in S : \A j \in S : j <= i

\* The line has been handed to OnelineLog::from and a Commit came back.
ParsedCommit == ppc # "line" /\ log.kind = "Commit"

\* C11: a line of graph glyphs only (`|`, `\`, `/`, space) parses to a
\* TreeBranches holding the line unchanged.
C11_GraphLineUnchanged ==
    (ppc # "line" /\ \A i \in 1..Len(line) : line[i] \in {"|", "\\", "/", " "})
        => (log.kind = "TreeBranches" /\ log.branches = line)

\* C11 witness: a graph line with a space at its end was kept as it came.
C11_GraphLineKept ==
    /\ ppc = "parsed"
    /\ Len(line) >= 3
    /\ At(line, "|") # {} /\ At(line, "\\") # {}
    /\ line[Len(line)] = " "
    /\ \A i \in 1..Len(line) : line[i] \in {"|", "\\", "/", " "}
    /\ (log.kind = "TreeBranches" /\ log.branches = line)

\* The line has no `*`, or no `-` after its first `*`.
NoDashAfterStar(l) ==
    At(l, "*") = {} \/ \A j \in At(l, "-") : j < Least(At(l, "*"))

\* C12 as stated: a line with no `*`, with no `-`, or with no `-` after its
\* first `*` parses to a TreeBranches; the hash field of a Commit ends at the
\* first `-` after the first `*`.
C12_NoPairIsDecoration ==
    /\ (ppc # "line" /\ NoDashAfterStar(line)) => (log.kind = "TreeBranches" /\ log.branches = line)
    /\ ParsedCommit =>
           LET star == Least(At(line, "*"))
               dash == Least({j \in At(line, "-") : j > star})
           IN  log.commit.hash = Trim(SubSeq(line, star + 1, dash - 1))

\* The line has one parenthesized group / two, one after the other.
OneGroup(l) ==
    /\ Cardinality(At(l, "(")) = 1
    /\ Cardinality(At(l, ")")) = 1
    /\ Least(At(l, "(")) < Least(At(l, ")"))

TwoGroups(l) ==
    /\ Cardinality(At(l, "(")) = 2
    /\ Cardinality(At(l, ")")) = 2
    /\ Least(At(l, "(")) < Least(At(l, ")"))
    /\ Least(At(l, ")")) < Greatest(At(l, "("))
    /\ Greatest(At(l, "(")) < Greatest(At(l, ")"))

\* The text inside the first / the last parenthesized group.
FirstGroup(l) == SubSeq(l, Least(At(l, "(")) + 1, Least(At(l, ")")) - 1)

LastGroup(l) == SubSeq(l, Greatest(At(l, "(")) + 1, Greatest(At(l, ")")) - 1)

\* C13: a commit line with one parenthesized group has no aliases and the
\* group as its date; one with two groups of different text has the first
\* group as its aliases and the last as its date.
C13_AliasDisambiguation ==
    ParsedCommit =>
        /\ OneGroup(line) =>
               (log.commit.aliases = None /\ log.commit.date = FirstGroup(line))
        /\ (TwoGroups(line) /\ FirstGroup(line) # LastGroup(line)) =>
               /\ log.commit.aliases = Some(FirstGroup(line))
               /\ log.commit.date = LastGroup(line)

\* C13 witness: a template line with two groups of different text was parsed.
C13_TwoGroupsParsed ==
    /\ ParsedCommit
    /\ given # NoCommit
    /\ TwoGroups(line)
    /\ FirstGroup(line) # LastGroup(line)
    /\ log.commit.aliases = Some(FirstGroup(line))
    /\ log.commit.message # <<>>

\* C14 as stated: every Commit that comes out of parsing has a non-empty hash.
C14_HashNonEmpty == ParsedCommit => log.commit.hash # <<>>

\* Where the message of the parsed line starts (1-based): after the `)` of
\* the first group when aliases were found, after the first `-` when not.
MessageStart(l, c) ==
    IF c.aliases.some THEN Least(At(l, ")")) + 1 ELSE Least(At(l, "-")) + 1

\* C15 as stated: the message is the trimmed text between the end of the
\* aliases group (of the hash field, without aliases) and the `(` of the last
\* group; tree_head is the text before the first `*`.
C15_MessageBetween ==
    ParsedCommit =>
        /\ log.commit.message =
               Trim(SubSeq(line, MessageStart(line, log.commit),
                           Greatest(At(line, "(")) - 1))
        /\ log.commit.tree_head = SubSeq(line, 1, Least(At(line, "*")) - 1)

\* C15, amended: so it is when that end does not lie after the `(` of the last
\* group; when it does, the message is the trimmed text from that `(` up to
\* that end.
C15_MessageBetweenEitherWay ==
    ParsedCommit =>
        LET start == MessageStart(line, log.commit)
            open == Greatest(At(line, "("))
        IN  /\ start <= open =>
                   log.commit.message = Trim(SubSeq(line, start, open - 1))
            /\ start > open =>
                   log.commit.message = Trim(SubSeq(line, open, start - 1))
            /\ log.commit.tree_head = SubSeq(line, 1, Least(At(line, "*")) - 1)

\* C15 witness: a message was taken from behind the aliases of a line with a
\* tree head.
C15_MessageTaken ==
    /\ ParsedCommit
    /\ log.commit.aliases.some
    /\ log.commit.tree_head # <<>>
    /\ log.commit.message # <<>>
    /\ MessageStart(line, log.commit) < Greatest(At(line, "("))

\* ------------------------------------------------- claims on the navigator

\* The 0-based indexes of the Commits of a list.
CommitsAt(its) == {i \in 0..(Len(its) - 1) : its[i + 1].kind = "Commit"}

\* The first Commit after the cursor (of the list, when the cursor is unset),
\* or the first Commit of the list when none follows.
NextCommit(its, sel) ==
    LET after == {i \in CommitsAt(its) : sel = NoPos \/ i > sel}
    IN  IF after # {} THEN Least(after) ELSE Least(CommitsAt(its))

\* C16: with a Commit in the list, next() ends, and it selects the first
\* Commit after the cursor (from index 0 when the cursor is unset), the first
\* Commit of the list when none follows.
C16_NextLandsOnNextCommit ==
    /\ [][(npc = "get_next" /\ npc' = "idle")
              => selected' = NextCommit(items, selected)]_vars
    /\ (npc = "get_next" /\ CommitsAt(items) # {}) ~> (npc = "idle")

\* C16 witness: on [TreeBranches, Commit, TreeBranches, Commit] a search that
\* ran off the end came back to the Commit at index 1.
C16_WrappedToFirst ==
    /\ Len(items) = 4
    /\ CommitsAt(items) = {1, 3}
    /\ npc = "idle"
    /\ wrapped
    /\ selected = 1

\* C17 as stated: with a Commit in the list, prev() ends, whatever the cursor;
\* it selects the nearest Commit below the cursor, and a search that finds
\* none down to index 0 goes on from the last index.
C17_PrevTerminates ==
    /\ [][(npc = "get_prev" /\ npc' = "idle" /\ selected # NoPos)
              => LET below == {i \in CommitsAt(items) : i < selected}
                 IN  selected' = IF below # {} THEN Greatest(below)
                                 ELSE Greatest(CommitsAt(items))]_vars
    /\ [][(/\ npc = "get_prev" /\ npc' = "get_prev"
           /\ CommitsAt(items) # {}
           /\ arg = 0)
              => arg' = Len(items) - 1]_vars
    /\ (npc = "get_prev" /\ CommitsAt(items) # {}) ~> (npc = "idle")

\* C18: the cursor, once set, stays set and is the index of a Commit, which
\* current() returns; it is unset only until the first next() or prev()
\* returns.
C18_CursorOnCommit ==
    /\ [](selected # NoPos =>
              /\ selected \in 0..(Len(items) - 1)
              /\ items[selected + 1].kind = "Commit"
              /\ Current = items[selected + 1])
    /\ [][(selected # NoPos \/ (npc # "idle" /\ npc' = "idle"))
              => selected' # NoPos]_vars

\* C18 witness: after a search back from the end the cursor rests on a Commit
\* behind a TreeBranches.
C18_RestsOnCommit ==
    /\ npc = "idle"
    /\ wrapped
    /\ selected > 0
    /\ items[selected].kind = "TreeBranches"
    /\ Current.kind = "Commit"

\* C19: with no Commit in the list (all TreeBranches, or empty), next() never
\* returns and the cursor is never set.
C19_NoCommitNeverReturns ==
    /\ [](CommitsAt(items) = {} => selected = NoPos)
    /\ [][(npc = "get_next" /\ CommitsAt(items) = {})
              => npc' \in {"get_next", "overflow"}]_vars

\* C19 witness: a search over TreeBranches only has gone round the list and
\* is still running with the stack full.
C19_StillSearching ==
    /\ items # <<>>
    /\ CommitsAt(items) = {}
    /\ npc = "get_next"
    /\ wrapped
    /\ depth = MaxDepth

\* ---------------------------------------------------- claims on the picker

\* C20 as stated: no step of an extraction (dirty check, diff, checkout) runs
\* for a pair of equal hashes.
C20_EqualPairNeverExtracted ==
    (tpc = "copy" /\ from_commit = to_commit) => calls = <<>>

\* ---------------------------------------- claims on the order of the calls

\* The position in `calls` of the tree listing of the "to" pass, one past the
\* end while there is none.
ToStart ==
    LET ls == {i \in CallsOf("gitls.name_only") : calls[i].commit = to_commit
                                                  /\ from_commit # to_commit}
    IN  IF ls = {} THEN Len(calls) + 1 ELSE Least(ls)

\* The pass a tree call belongs to, by its place before or after ToStart.
PassOf(i) == IF i < ToStart THEN "from" ELSE "to"

\* The place of a changed path in `files`.
PlaceOf(path) == CHOOSE k \in 1..Len(files) : files[k] = path

\* C21: every tree call of the "from" pass, its hard reset last, comes before
\* the first call of the "to" pass; within a pass the paths are materialized
\* in the order of `files`, one at a time: materialized, copied, restored.
C21_Serialized ==
    /\ \A i \in CallsOf("gitls.name_only") \cup CallsOf("gc.checkout") :
           calls[i].commit = PassCommit(PassOf(i))
    /\ ToStart <= Len(calls) =>
           /\ calls[ToStart - 1].op = "gr.hard"
           /\ \A i \in CallsOf("gr.hard") : i = ToStart - 1 \/ i = Len(calls)
    /\ \A i, j \in CallsOf("gc.checkout") :
           (i < j /\ PassOf(i) = PassOf(j))
               => PlaceOf(calls[i].path) < PlaceOf(calls[j].path)
    /\ \A i \in CallsOf("gc.checkout") :
           (calls[i].ok /\ i < Len(calls))
               => \/ calls[i + 1].op = "gr.hard"
                  \/ /\ calls[i + 1].op = "gc_origin.checkout"
                     /\ calls[i + 1].path = calls[i].path
    /\ \A i \in CallsOf("gc_origin.checkout") :
           /\ calls[i - 1] = Call("gc.checkout", PassCommit(PassOf(i)),
                                  calls[i].path, TRUE)
           /\ <<OutputDir \o <<PassOf(i)>> \o calls[i].path,
                PassCommit(PassOf(i))>> \in outfiles

\* C21 witness: both passes materialized, copied and restored two paths.
C21_TwoPathsBothPasses ==
    /\ outcome = "Ok"
    /\ Len(files) = 2
    /\ Cardinality(CallsOf("gc.checkout")) = 4
    /\ Cardinality(CallsOf("gc_origin.checkout")) = 4

\* The "Copied" lines the report writer got during pass e, in order.
Reported(e) == SelectSeq(w, LAMBDA x : x.pass = e)

\* The changed paths the tree of endpoint e holds, in diff order.
Present(e) == SelectSeq(files, LAMBDA f : f \in set[e].names)

\* C22: on a successful extract the report's entries of each endpoint are
\* exactly the changed paths present in that endpoint's tree, in diff order,
\* each with destination output_dir/<from|to>/<path>; the changed paths were
\* asked of git once and drive both passes.
C22_ReportedEntries ==
    outcome = "Ok" =>
        /\ w = Reported("from") \o Reported("to")
        /\ \A e \in {"from", "to"} :
               /\ Len(Reported(e)) = Len(Present(e))
               /\ \A k \in 1..Len(Reported(e)) :
                      Reported(e)[k].dest = OutputDir \o <<e>> \o Present(e)[k]
        /\ Cardinality({i \in CallsOf("diff.name_only") :
                            calls[i].commit # "HEAD"}) = 1

\* C22 witness: a successful extract of two changed paths, one of them absent
\* from the "from" tree.
C22_OneAbsentInFrom ==
    /\ outcome = "Ok"
    /\ Len(files) = 2
    /\ Len(Reported("from")) = 1
    /\ Len(Reported("to")) = 2

\* A materialize (`gc.checkout`) failed during the run.
MaterializeFailed == \E i \in CallsOf("gc.checkout") : ~calls[i].ok

\* The run ended on a failed fs::copy: the last path materialized was neither
\* copied nor restored before the hard reset.
CopyFailed ==
    /\ pc = "done"
    /\ Len(calls) >= 2
    /\ LastCall.op = "gr.hard"
    /\ calls[Len(calls) - 1].op = "gc.checkout"
    /\ calls[Len(calls) - 1].ok
    /\ \A f \in outfiles :
           f[1] # OutputDir \o <<pass>> \o calls[Len(calls) - 1].path

\* After a failed materialize the only call that follows is the hard reset.
StopsAfterFailure ==
    \A i \in CallsOf("gc.checkout") :
        ~calls[i].ok => /\ Len(calls) <= i + 1
                        /\ Len(calls) = i + 1 => LastCall.op = "gr.hard"

\* C23 as stated: a failed materialize or file copy is what extract returns.
C23_FailureReturned ==
    /\ (pc = "done" /\ MaterializeFailed) => outcome = ErrCheckout
    /\ CopyFailed => outcome = ErrIo

\* A failing fs::copy or materialize goes straight to the guard, and the
\* guard to the end of the run, with the hard reset as the only call.
FailureGoesToGuard ==
    /\ (pc = "fscopy" /\ pc' # "writeln")
           => pc' = "drop" /\ pending' = ErrIo /\ calls' = calls
    /\ (pc = "checkout" /\ pc' # "fscopy")
           => pc' = "drop" /\ pending' \in {ErrCheckout, ErrRootDir}
    /\ (pc = "drop" /\ pending # "none")
           => /\ pc' = "done"
              /\ Len(calls') = Len(calls) + 1
              /\ LastCall'.op = "gr.hard"

\* C23 (amended): no step is retried and a failure stops the run: after a
\* failed materialize or file copy nothing but the pass's hard reset is
\* called, the "to" pass is not started, and extract returns the failure
\* when that hard reset succeeds and panics when it fails too.
C23_FailureStops ==
    /\ [](/\ StopsAfterFailure
          /\ (pc = "done" /\ MaterializeFailed)
                 => outcome = (IF LastCall.ok THEN ErrCheckout ELSE PanicUnwrap)
          /\ CopyFailed
                 => outcome = (IF LastCall.ok THEN ErrIo ELSE PanicUnwrap))
    /\ [][FailureGoesToGuard]_vars

\* C23 witness: the first of two paths failed to materialize in the "from"
\* pass and the run returned that failure.
C23_FirstMaterializeFailed ==
    /\ pc = "done"
    /\ pass = "from"
    /\ Len(files) = 2
    /\ MaterializeFailed
    /\ Cardinality(CallsOf("gc.checkout")) = 1
    /\ outcome = ErrCheckout

\* ------------------------------------------------------- claims on gde

\* C24: when the non-interactive command has finished, with Ok or with an
\* error, every changed path of the working tree holds what it held at the
\* start.
C24_TreeAsStarted ==
    pc = "cli_done" => \A p \in Range(files) : wt[p] = current_commit

\* ----------------------------------------------- claims on the hard reset

\* C25: every hard reset names the commit the run started at, so the "to"
\* pass starts with HEAD and the working tree at that commit, as the "from"
\* pass did.
C25_ResetTargetsOriginal ==
    /\ \A i \in CallsOf("gr.hard") : calls[i].commit = current_commit
    /\ (pass = "to" /\ pc = "lstree" /\ LastCall.ok)
           => /\ head = current_commit
              /\ \A p \in Paths : wt[p] = current_commit

\* The changed paths whose working-tree content is not that of the commit the
\* run started at.
ForeignPaths == {p \in Range(files) : wt[p] # current_commit}

\* A pass is under way: from its tree listing to the drop of its guard.
InPass ==
    pc \in {"lstree", "handles", "loop", "checkout", "fscopy", "writeln",
            "restore", "drop"}

\* C26: with every per-path restore so far successful, at most one changed
\* path holds foreign content at any point of a pass, and none does when the
\* pass's hard reset is about to run.
C26_OneForeignPath ==
    (InPass /\ \A i \in CallsOf("gc_origin.checkout") : calls[i].ok)
        => /\ Cardinality(ForeignPaths) <= 1
           /\ pc = "drop" => ForeignPaths = {}

\* The hard resets of pass e.
ResetsOf(e) == {j \in CallsOf("gr.hard") : PassOf(j) = e}

\* C27: once a pass is over, each of its materialize calls has the pass's
\* hard reset after it; a pass invokes the hard reset at most once, and no
\* call of the pass comes after it; a file is copied, reported and restored
\* only right after its materialize, never after the reset.
C27_ResetClosesPass ==
    /\ pc \in {"begin", "done"} =>
           \A i \in CallsOf("gc.checkout") :
               \E j \in ResetsOf(PassOf(i)) : i < j
    /\ \A e \in {"from", "to"} :
           /\ Cardinality(ResetsOf(e)) <= 1
           /\ \A j \in ResetsOf(e) :
                  \A k \in TreeCalls : (k > j) => PassOf(k) # e
    /\ pc \in {"fscopy", "writeln", "restore"} =>
           LastCall.op = "gc.checkout" /\ LastCall.ok

\* C27 witness: both passes materialized a path and a run of two hard resets
\* returned Ok.
C27_BothPassesReset ==
    /\ pc = "done"
    /\ outcome = "Ok"
    /\ \A e \in {"from", "to"} :
           /\ Cardinality(ResetsOf(e)) = 1
           /\ \E i \in CallsOf("gc.checkout") : PassOf(i) = e

\* ------------------------------------------ claims on the failing queries

\* The calls of GitDiff that failed: the two dirty-check queries and the
\* changed paths between the two commits.
FailedQueries ==
    {i \in CallsOf("diff.name_only") \cup CallsOf("diff.staged_name_only") :
        ~calls[i].ok}

\* C28: when a dirty-check query or the query of the changed paths fails,
\* extract returns that failure at once: the failed query is the last call,
\* no directory exists and no listing, materialize, restore or hard reset
\* was invoked.
C28_QueryFailureReturns ==
    FailedQueries # {} =>
        /\ pc = "done"
        /\ outcome = ErrDiff
        /\ FailedQueries = {Len(calls)}
        /\ dirs = {}
        /\ outfiles = {}
        /\ TreeCalls = {}
        /\ pass = "none"

\* C28 witness: the staged query of the dirty check failed.
C28_StagedQueryFailed ==
    /\ staged.st = "failed"
    /\ LastCall = Call("diff.staged_name_only", "HEAD", <<>>, FALSE)
    /\ outcome = ErrDiff

\* ------------------------------------------- claims on the picker's keys

\* C29: a run of the picker that ended on Esc or Ctrl-C returns no pair,
\* whatever was selected before, so that main starts no extraction.
C29_CancelYieldsNoPair ==
    (tpc = "returned" /\ key \in {"Esc", "Ctrl-C"}) => ~picked.some

\* Both commits are selected and their hashes differ.
DistinctPair ==
    /\ run_from_commit.some
    /\ run_to_commit.some
    /\ run_from_commit.hash # run_to_commit.hash

\* C30: Enter ends the selection, with the selected pair, only when both
\* commits are selected and their hashes differ; any other Enter leaves the
\* picker open and changes nothing but the notice: the From and To
\* selections, the list and its cursor stay as they were.
C30_EnterFrame ==
    [][(InKeys /\ key' = "Enter") =>
          IF DistinctPair
          THEN /\ tpc' = "returned"
               /\ picked' = Pair(run_from_commit.hash, run_to_commit.hash)
          ELSE /\ tpc' = "keys"
               /\ UNCHANGED <<copyVars, parserVars, libVars, navVars, run_from_commit,
                              run_to_commit, picked>>]_vars

\* C30 witness: Enter was pressed with the same commit selected as From and
\* as To; the picker is still open and shows the notice.
C30_EnterOnEqualPair ==
    /\ tpc = "keys"
    /\ key = "Enter"
    /\ run_from_commit.some
    /\ run_to_commit.some
    /\ run_from_commit.hash = run_to_commit.hash
    /\ notice_msg = EnterNotice(run_from_commit, run_to_commit)
    /\ selected # NoPos

\* ------------------------------------------- claims on next() and prev()

\* The caller's last two calls were next() and prev(), one of each, and the
\* first found the cursor on a Commit.
InversePair ==
    /\ Len(called) = 2
    /\ called[1].op # called[2].op
    /\ called[1].from # NoPos
    /\ IsCommit(items[called[1].from + 1])

\* C31: called with the cursor on a Commit, next() and prev() end, neither
\* overflows the stack, and next() then prev(), or prev() then next(), leaves
\* the cursor where the first of the two found it.
C31_NextPrevInverse ==
    /\ (called # <<>> /\ called[Len(called)].from # NoPos) => npc # "overflow"
    /\ (InversePair /\ npc = "idle") => selected = called[1].from

\* The part of C31 on the runs in which both calls end.
C31_InverseWhenBothEnd ==
    (InversePair /\ npc = "idle") => selected = called[1].from

\* ------------------------------------------------------ claims on Defer

\* The places in `events` of one kind of event of one Defer value.
EventsOf(ev, g) == {k \in 1..Len(events) : events[k] = [ev |-> ev, g |-> g]}

\* C32: the closure of a Defer value runs at most once and only as part of
\* the drop of the value; a dropped value ran it exactly once, right at its
\* drop, unless cancel was called on it before, and then it never runs;
\* this holds however the scope is left.
C32_RunsOnceAtDrop ==
    \A g \in Guards :
        /\ Cardinality(EventsOf("run", g)) <= 1
        /\ Cardinality(EventsOf("drop", g)) <= 1
        /\ \A k \in EventsOf("run", g) : k > 1 /\ (k - 1) \in EventsOf("drop", g)
        /\ \A k \in EventsOf("drop", g) :
               IF \E c \in EventsOf("cancel", g) : c < k
               THEN EventsOf("run", g) = {}
               ELSE EventsOf("run", g) = {k + 1}
        /\ guard[g].st # "dropped" => EventsOf("run", g) = {}

\* C32 witness: a scope left by unwinding dropped two Defer values, ran the
\* closure of the one and not that of the other, which had been cancelled.
C32_OneRanOneCancelled ==
    /\ scope = "unwind"
    /\ \A g \in Guards : g <= 2 => guard[g].st = "dropped"
    /\ EventsOf("cancel", 1) # {}
    /\ EventsOf("run", 1) = {}
    /\ EventsOf("cancel", 2) = {}
    /\ EventsOf("run", 2) # {}

\* --------------------------------------------------- claims on Git::exec

\* C33 as stated: when Git::exec has returned the process is in the
\* directory it was in at the call, and the closure did not run if the
\* switch to target_dir failed.
C33_CwdUnchangedOnReturn ==
    epc = "returned" =>
        /\ cwd = origin
        /\ prev_dir = "" => f_runs = 0

\* C33 (amended): the closure runs once, in target_dir, and not at all when
\* the switch to target_dir failed; exec then tries to go back to the
\* directory of the call whatever the closure returned.  When that succeeds
\* exec returns the closure's result from the directory of the call; when it
\* fails exec returns that error and the process stays in target_dir.
C33_BackUnlessSwitchFails ==
    /\ epc \in {"run", "back"} =>
           /\ cwd = target_dir
           /\ prev_dir = origin
           /\ f_runs = (IF epc = "run" THEN 0 ELSE 1)
    /\ epc = "returned" =>
           IF prev_dir = ""
           THEN f_runs = 0 /\ cwd = origin /\ returned = ErrIo
           ELSE /\ f_runs = 1
                /\ \/ returned = f_ret /\ cwd = origin
                   \/ returned = ErrIo /\ cwd = target_dir

\* C33 witness: the closure failed and exec went back to the directory of
\* the call, another one than target_dir, and returned the closure's Err.
C33_BackAfterFailedClosure ==
    /\ epc = "returned"
    /\ f_ret = "Err"
    /\ returned = "Err"
    /\ origin # target_dir
    /\ cwd = origin

====
